---- MODULE Spec2Model ----
(***************************************************************************)
(* Megaship movement tracker: the EDDN listener (src/eddn_listener.py) and *)
(* the commander tracker (src/utils/cmdr_tracker.py) as a state machine.   *)
(*                                                                         *)
(* Python values are encoded as follows.                                   *)
(*  - A string that may be a timestamp is a record [str, t]: the ISO text  *)
(*    of second t ending in "Z" (str = "Z"), ending in "+00:00" (str =     *)
(*    "+00:00"), the text datetime.isoformat() produces, with microseconds *)
(*    (str = "us+00:00"), or a literal that is no timestamp (str = the     *)
(*    literal, t = 0).  Two such strings are equal in Python exactly when  *)
(*    the records are equal; fromisoformat() reads t from the first three  *)
(*    forms and raises ValueError on a literal.                            *)
(*  - A dict is a function on the set of its keys; an insertion-ordered    *)
(*    dict whose order the code iterates is a sequence of entries.         *)
(*  - An exception is the field "raised" of the handler's state: once it   *)
(*    is set the rest of the handler is skipped, as in Python.             *)
(***************************************************************************)
EXTENDS Integers, Sequences, FiniteSets, TLC

VARIABLES
  now,                       \* wall clock, seconds (datetime.now(timezone.utc))
  megaships,                 \* EDDNListener.megaships
  tracked_systems,           \* EDDNListener.tracked_systems
  missing_confirmations,     \* EDDNListener.missing_confirmations
  previous_ship_systems,     \* EDDNListener.previous_ship_systems
  messages_processed,        \* EDDNListener.messages_processed
  signals_checked,           \* EDDNListener.signals_checked
  fleet_carriers_seen,       \* EDDNListener.fleet_carriers_seen
  recent_events,             \* EDDNListener.recent_events (deque)
  recent_navroutes,          \* CommanderTracker.recent_navroutes
  pending_departures,        \* CommanderTracker.pending_departures
  auto_processed_departures, \* CommanderTracker.auto_processed_departures
  recent_arrivals,           \* CommanderTracker.recent_arrivals
  recent_planned_arrivals,   \* CommanderTracker.recent_planned_arrivals
  data,                      \* the message process_message handled last
  sink,                      \* events the callback received from that message
  tasks,                     \* coroutines that message detached with create_task
  raised,                    \* the exception that message's handler raised, or ""
  running,                   \* EDDNListener.running
  messages_received,         \* EDDNListener.messages_received
  zmq_pc,                    \* position of zmq_listener_thread
  start_pc,                  \* position of the coroutine start()
  loop_tasks                 \* process_message coroutines on the event loop

vars == <<now, megaships, tracked_systems, missing_confirmations,
          previous_ship_systems, messages_processed, signals_checked,
          fleet_carriers_seen, recent_events, recent_navroutes,
          pending_departures, auto_processed_departures, recent_arrivals,
          recent_planned_arrivals, data, sink, tasks, raised, running,
          messages_received, zmq_pc, start_pc, loop_tasks>>

\* the listener's threads and coroutines
procvars == <<running, zmq_pc, start_pc, loop_tasks>>

----------------------------------------------------------------------------
(* Bounds of the model *)

\* messages handed to process_message in one run
MaxMessages == 4

\* scans handed to process_message in one run of the debounce specification
MaxScans == 7

\* last second of the clock
MaxTime == 450

----------------------------------------------------------------------------
(* Program constants *)

MISSING_COUNT_FOR_JUMP == 6

MISSING_COUNT_FOR_EVENT_Early == 5 - 1

\* the literal 5 of "if self.missing_confirmations[key] >= 5"
MISSING_COUNT_FOR_EVENT == 5

\* the literal 600 of "if time_diff > 600" (both handlers)
STALE_SECONDS == 600

\* deque(maxlen=300)
RECENT_EVENTS_MAXLEN == 300

\* the two ship names, in the order of the loop over missing ships
MEGASHIP_NAMES == <<"Cygnus", "The Orion">>

\* the keys of tracked_systems, in dict order (two of the eight systems)
TRACKED_ORDER == <<"Nukamba", "Graffias">>

SeqRange(s) == {s[i] : i \in 1..Len(s)}

IsTracked(system) == system \in SeqRange(TRACKED_ORDER)

----------------------------------------------------------------------------
(* Strings and timestamps *)

IsoZ(t)   == [str |-> "Z", t |-> t]
IsoOff(t) == [str |-> "+00:00", t |-> t]
IsoNow(t) == [str |-> "us+00:00", t |-> t]
Lit(s)    == [str |-> s, t |-> 0]

NoneStr        == Lit("None")
NOT_DETECTED   == Lit("NOT DETECTED")
SIGNAL_MISSING == Lit("SIGNAL MISSING")
Garbage        == Lit("yesterday")

IsoForms == {"Z", "+00:00", "us+00:00"}

\* datetime.fromisoformat(s.replace('Z', '+00:00')) succeeds
Parses(s) == s.str \in IsoForms

\* its value, in seconds
ParseTime(s) == s.t

\* "T" in s
ContainsT(s) == s.str \in IsoForms \cup {"NOT DETECTED"}

Abs(n) == IF n < 0 THEN -n ELSE n

\* msg.get("timestamp", datetime.now(timezone.utc).isoformat())
GetTimestamp(msg, clock) ==
  IF msg.timestamp = NoneStr THEN IsoNow(clock) ELSE msg.timestamp

----------------------------------------------------------------------------
(* Dicts *)

DictGet(d, k, default) == IF k \in DOMAIN d THEN d[k] ELSE default

DictPut(d, k, v) == [x \in (DOMAIN d) \cup {k} |-> IF x = k THEN v ELSE d[x]]

DictDel(d, k) == [x \in (DOMAIN d) \ {k} |-> d[x]]

----------------------------------------------------------------------------
(* Events *)

MegashipDetectedEvent(name, system, address, type, status, ts, irregular) ==
  [type |-> "megaship", name |-> name, system |-> system,
   system_address |-> address, signal_type |-> type, status |-> status,
   timestamp |-> ts, is_irregular |-> irregular, has_irregular |-> TRUE,
   previous_detection |-> NoneStr, other |-> "None",
   commander_count |-> -1, uploader_id |-> "None"]

MegashipMissingEvent(name, system, address, ts, previous) ==
  [type |-> "megaship", name |-> name, system |-> system,
   system_address |-> address, signal_type |-> "None",
   status |-> "SIGNAL MISSING", timestamp |-> ts, is_irregular |-> FALSE,
   has_irregular |-> FALSE, previous_detection |-> previous, other |-> "None",
   commander_count |-> -1, uploader_id |-> "None"]

\* a system_traffic event; "other" is its destination or origin key
TrafficEvent(action, system, other, count, ts, uploader) ==
  [type |-> "system_traffic", name |-> action, system |-> system,
   system_address |-> 0, signal_type |-> "None", status |-> "None",
   timestamp |-> ts, is_irregular |-> FALSE, has_irregular |-> FALSE,
   previous_detection |-> NoneStr, other |-> other,
   commander_count |-> count, uploader_id |-> uploader]

DequeAppend_Unbounded(q, e) == Append(q, e)

\* deque.append with maxlen
DequeAppend(q, e) ==
  IF Len(q) < RECENT_EVENTS_MAXLEN THEN Append(q, e)
  ELSE Append(SubSeq(q, 2, Len(q)), e)

\* EDDNListener.handle_event; cb is the callback: "none" (no callback),
\* "ok" (it returns), "raise" (it raises) or "suspend" (it takes the event
\* and suspends the coroutine on its own await; "Suspended" marks the point)
handle_event(st, e, cb) ==
  LET st1 == [st EXCEPT !.recent_events = DequeAppend(@, e)] IN
  CASE cb = "none"  -> st1
    [] cb = "ok"    -> [st1 EXCEPT !.sink = Append(@, e)]
    [] cb = "raise" -> [st1 EXCEPT !.raised = "SinkError"]
    [] cb = "suspend" -> [st1 EXCEPT !.sink = Append(@, e),
                                    !.raised = "Suspended"]

\* len(data["commanders"]): the size of a set; len() of an integer raises
\* TypeError
LenOfCommanders(c) ==
  IF c.type = "set" THEN [raised |-> "", value |-> c.n]
  ELSE [raised |-> "TypeError", value |-> 0]

\* EDDNListener.get_status, the system statistics of the snapshot: the
\* first system whose len() raises aborts the call
get_status(systems) ==
  IF \E s \in DOMAIN systems : LenOfCommanders(systems[s].commanders).raised # ""
  THEN [raised |-> "TypeError", tracked_systems |-> <<>>]
  ELSE [raised |-> "",
        tracked_systems |-> [s \in DOMAIN systems |->
           [commanders |-> LenOfCommanders(systems[s].commanders).value,
            jumps_to |-> systems[s].jumps_to,
            jumps_from |-> systems[s].jumps_from,
            fleet_carriers |-> systems[s].fleet_carriers,
            ships |-> systems[s].ships]]]

----------------------------------------------------------------------------
(* Signal Processor: EDDNListener.process_fss_signals *)

\* a coroutine handed to asyncio.create_task: a push notification
NotifyTask(fn, ship, system, ts) ==
  [task |-> fn, name |-> ship, system |-> system, timestamp |-> ts]

IsMegashipSignal_AnyType(signal_name, signal_type) ==
  signal_name \in SeqRange(MEGASHIP_NAMES)

\* "signal_name in [...] and signal_type != 'FleetCarrier'"
IsMegashipSignal(signal_name, signal_type) ==
  signal_name \in SeqRange(MEGASHIP_NAMES) /\ signal_type # "FleetCarrier"

HoldsDetection_Lenient(status) == status # NOT_DETECTED

\* the status is a detection timestamp: no sentinel, and "T" in it
HoldsDetection(status) ==
  status \notin {NOT_DETECTED, SIGNAL_MISSING} /\ ContainsT(status)

ResetMissing_Kept(missing, key) == missing

\* "if key in self.missing_confirmations: del self.missing_confirmations[key]"
ResetMissing(missing, key) == DictDel(missing, key)

DetectionStatus_AlwaysDetected(is_irregular) == "DETECTED"

\* "IRREGULAR VISIT" if is_irregular else "DETECTED"
DetectionStatus(is_irregular) ==
  IF is_irregular THEN "IRREGULAR VISIT" ELSE "DETECTED"

\* the body of "for signal in signals"; loc holds the handler's state st and
\* the locals found_megaships and fleet_carrier_count
ProcessSignal(loc, system, system_address, timestamp, signal, cb) ==
  LET signal_name == signal.SignalName
      signal_type == signal.SignalType
      signal_timestamp ==
        IF signal.timestamp = NoneStr THEN timestamp ELSE signal.timestamp
      loc1 == IF IsTracked(system) /\ signal_type = "FleetCarrier"
              THEN [loc EXCEPT !.fleet_carrier_count = @ + 1,
                               !.st.fleet_carriers_seen = @ + 1]
              ELSE loc
  IN
  IF ~IsMegashipSignal(signal_name, signal_type) THEN loc1
  ELSE
    LET is_irregular == ~IsTracked(system)
        status == DetectionStatus(is_irregular)
        st1 == [loc1.st EXCEPT !.megaships[signal_name] =
                  [last_seen |-> signal_timestamp, system |-> system,
                   system_address |-> system_address,
                   signal_type |-> signal_type, status |-> status,
                   last_checked |-> NoneStr, previous_detection |-> NoneStr]]
        previous_system ==
          DictGet(st1.previous_ship_systems, signal_name, "None")
        st2 == IF IsTracked(system)
               THEN [st1 EXCEPT
                      !.tracked_systems[system].ships[signal_name] =
                          signal_timestamp,
                      !.missing_confirmations =
                          ResetMissing(@, <<signal_name, system>>),
                      !.tasks =
                          IF previous_system # "None" /\ previous_system # system
                          THEN Append(@, NotifyTask("send_ship_appeared",
                                         signal_name, system, signal_timestamp))
                          ELSE @,
                      !.previous_ship_systems =
                          DictPut(@, signal_name, system)]
               ELSE st1
        st3 == handle_event(st2,
                 MegashipDetectedEvent(signal_name, system, system_address,
                    signal_type, status, signal_timestamp, is_irregular), cb)
    IN [loc1 EXCEPT !.found_megaships = @ \cup {signal_name}, !.st = st3]

RECURSIVE SignalLoop(_, _, _, _, _, _, _)
SignalLoop(loc, system, system_address, timestamp, signals, i, cb) ==
  IF i > Len(signals) \/ loc.st.raised # "" THEN loc
  ELSE SignalLoop(
         ProcessSignal(loc, system, system_address, timestamp, signals[i], cb),
         system, system_address, timestamp, signals, i + 1, cb)

\* the body of "for megaship_name in [...]" (the missing check)
CheckMissing(loc, system, system_address, timestamp, megaship_name, cb) ==
  LET st == loc.st
      current_status_in_system ==
        st.tracked_systems[system].ships[megaship_name]
      key == <<megaship_name, system>>
      count == DictGet(st.missing_confirmations, key, 0) + 1
      st1 == [st EXCEPT !.missing_confirmations = DictPut(@, key, count)]
      st2 == [st1 EXCEPT
               !.megaships[megaship_name].status = "SIGNAL MISSING",
               !.megaships[megaship_name].last_checked = timestamp,
               !.megaships[megaship_name].previous_detection =
                   current_status_in_system,
               !.tracked_systems[system].ships[megaship_name] =
                   SIGNAL_MISSING]
      st3 == IF count = MISSING_COUNT_FOR_JUMP
             THEN [st2 EXCEPT !.tasks = Append(@,
                     NotifyTask("send_ship_jumped", megaship_name, system,
                                timestamp))]
             ELSE st2
      st4 == handle_event(st3,
               MegashipMissingEvent(megaship_name, system, system_address,
                  timestamp, current_status_in_system), cb)
  IN
  IF megaship_name \in loc.found_megaships
     \/ ~HoldsDetection(current_status_in_system)
  THEN loc
  ELSE IF count >= MISSING_COUNT_FOR_EVENT THEN [loc EXCEPT !.st = st4]
       ELSE [loc EXCEPT !.st = st1]

RECURSIVE MissingLoop(_, _, _, _, _, _)
MissingLoop(loc, system, system_address, timestamp, i, cb) ==
  IF i > Len(MEGASHIP_NAMES) \/ loc.st.raised # "" THEN loc
  ELSE MissingLoop(
         CheckMissing(loc, system, system_address, timestamp,
                      MEGASHIP_NAMES[i], cb),
         system, system_address, timestamp, i + 1, cb)

IsStale_PastOnly(timestamp, clock) ==
  clock - ParseTime(timestamp) > STALE_SECONDS

\* |current_time - msg_time| > 600
IsStale(timestamp, clock) ==
  Abs(clock - ParseTime(timestamp)) > STALE_SECONDS

process_fss_signals(st, msg, clock, cb) ==
  LET system == msg.StarSystem
      system_address == msg.SystemAddress
      timestamp == GetTimestamp(msg, clock)
      signals == msg.signals
      loc0 == [st |-> [st EXCEPT !.signals_checked = @ + Len(signals)],
               found_megaships |-> {}, fleet_carrier_count |-> 0]
      loc1 == SignalLoop(loc0, system, system_address, timestamp, signals,
                         1, cb)
      loc2 == IF IsTracked(system)
              THEN MissingLoop(loc1, system, system_address, timestamp, 1, cb)
              ELSE loc1
  IN
  IF system = "None" \/ system_address = 0 THEN st
  ELSE IF ~Parses(timestamp) THEN st
  ELSE IF IsStale(timestamp, clock) THEN st
  ELSE IF signals = <<>> THEN st
  ELSE IF loc2.st.raised # "" THEN loc2.st
  ELSE IF IsTracked(system)
       THEN [loc2.st EXCEPT !.tracked_systems[system].fleet_carriers =
                                loc2.fleet_carrier_count]
       ELSE loc2.st

----------------------------------------------------------------------------
(* Route Tracker: CommanderTracker *)

\* "> 180" of cleanup_old_routes
ROUTE_EXPIRY_SECONDS == 180

\* "> 300" of cleanup_old_departures
DEPARTURE_TIMEOUT_SECONDS == 300

\* "< 30" of the two duplicate windows
DUPLICATE_WINDOW_SECONDS == 30

\* the value of tracked_systems[...]["commanders"]: set() or an integer
EMPTY_SET == [type |-> "set", n |-> 0]
IntVal(n) == [type |-> "int", n |-> n]

Max(a, b) == IF a >= b THEN a ELSE b

\* tracked_systems[s]["commanders"] = tracked_systems[s].get("commanders", 0) + 1
\* (set() + 1 raises TypeError)
IncrementCommanders(st, system) ==
  IF st.tracked_systems[system].commanders.type = "set"
  THEN [st EXCEPT !.raised = "TypeError"]
  ELSE [st EXCEPT !.tracked_systems[system].commanders = IntVal(@.n + 1)]

DecrementCommanders_SetAsZero(st, system) ==
  [st EXCEPT !.tracked_systems[system].commanders = IntVal(Max(0, @.n - 1))]

\* tracked_systems[s]["commanders"] = max(0, tracked_systems[s].get("commanders", 0) - 1)
\* (set() - 1 raises TypeError)
DecrementCommanders(st, system) ==
  IF st.tracked_systems[system].commanders.type = "set"
  THEN [st EXCEPT !.raised = "TypeError"]
  ELSE [st EXCEPT !.tracked_systems[system].commanders =
                      IntVal(Max(0, @.n - 1))]

\* commander_count = tracked_systems[s]["commanders"], as the event carries it
CommanderCount(st, system) == st.tracked_systems[system].commanders.n

\* "if callback: await callback(...)"; callback is "handle_event" or "None"
AwaitCallback(st, e, callback, cb) ==
  IF callback = "None" THEN st ELSE handle_event(st, e, cb)

\* "if callback: asyncio.create_task(callback(...))"
DetachCallback(st, e, callback) ==
  IF callback = "None" THEN st
  ELSE [st EXCEPT !.tasks = Append(@, [task |-> "callback", event |-> e])]

(* pending_departures, a dict in insertion order: a sequence of
   [key |-> <<from_system, to_system>>, deps |-> list] *)
PdHas(pd, key) == \E i \in 1..Len(pd) : pd[i].key = key

PdIndex(pd, key) == CHOOSE i \in 1..Len(pd) : pd[i].key = key

PdGet(pd, key) == pd[PdIndex(pd, key)].deps

PdSet(pd, key, deps) ==
  IF PdHas(pd, key) THEN [pd EXCEPT ![PdIndex(pd, key)].deps = deps]
  ELSE Append(pd, [key |-> key, deps |-> deps])

PdDel(pd, key) == SelectSeq(pd, LAMBDA e : e.key # key)

AllProcessed(deps) == \A i \in 1..Len(deps) : deps[i].processed

\* CommanderTracker.cleanup_old_routes
cleanup_old_routes(st, clock) ==
  LET routes == st.recent_navroutes
      expired_ids == {u \in DOMAIN routes :
                        clock - ParseTime(routes[u].timestamp)
                          > ROUTE_EXPIRY_SECONDS}
  IN
  IF \E u \in DOMAIN routes : ~Parses(routes[u].timestamp)
  THEN [st EXCEPT !.raised = "ValueError"]
  ELSE [st EXCEPT !.recent_navroutes =
                      [u \in (DOMAIN routes) \ expired_ids |-> routes[u]]]

\* the departure is older than the timeout
DepartureTimedOut(dep, clock) ==
  clock - ParseTime(dep.timestamp) > DEPARTURE_TIMEOUT_SECONDS

\* the body of "for i, dep in enumerate(departures)" of cleanup_old_departures
AutoProcess(st, key, i, clock, callback) ==
  LET dep == PdGet(st.pending_departures, key)[i]
      from_system == key[1]
      to_system == key[2]
      auto_key == <<from_system, dep.timestamp>>
      st1 == [st EXCEPT !.auto_processed_departures = @ \cup {auto_key}]
      st2 == DecrementCommanders(st1, from_system)
      st3 == [st2 EXCEPT !.tracked_systems[from_system].jumps_from = @ + 1]
      st4 == DetachCallback(st3,
               TrafficEvent("departed_timeout", from_system, to_system,
                  CommanderCount(st3, from_system), dep.timestamp, "None"),
               callback)
      st5 == IF ~IsTracked(from_system) THEN st1
             ELSE IF st2.raised # "" THEN st2
             ELSE st4
      st6 == [st5 EXCEPT !.pending_departures =
                PdSet(@, key, [PdGet(@, key) EXCEPT ![i].processed = TRUE])]
  IN
  IF dep.processed THEN st
  ELSE IF ~Parses(dep.timestamp) THEN [st EXCEPT !.raised = "ValueError"]
  ELSE IF ~DepartureTimedOut(dep, clock) THEN st
  ELSE IF auto_key \in st.auto_processed_departures THEN st
  ELSE IF st5.raised # "" THEN st5
  ELSE st6

RECURSIVE AutoProcessLoop(_, _, _, _, _)
AutoProcessLoop(st, key, i, clock, callback) ==
  IF st.raised # "" \/ i > Len(PdGet(st.pending_departures, key)) THEN st
  ELSE AutoProcessLoop(AutoProcess(st, key, i, clock, callback),
                       key, i + 1, clock, callback)

\* the body of "for route_key in list(self.pending_departures.keys())"
RECURSIVE CleanupKeys(_, _, _, _, _)
CleanupKeys(st, keys, k, clock, callback) ==
  IF st.raised # "" \/ k > Len(keys) THEN st
  ELSE
    LET st1 == AutoProcessLoop(st, keys[k], 1, clock, callback)
        departures == PdGet(st1.pending_departures, keys[k])
        st2 == IF st1.raised = "" /\ departures # <<>>
                  /\ AllProcessed(departures)
               THEN [st1 EXCEPT !.pending_departures = PdDel(@, keys[k])]
               ELSE st1
    IN CleanupKeys(st2, keys, k + 1, clock, callback)

\* CommanderTracker.cleanup_old_departures
cleanup_old_departures(st, clock, callback) ==
  CleanupKeys(st,
    [i \in 1..Len(st.pending_departures) |-> st.pending_departures[i].key],
    1, clock, callback)

\* a pending departure as process_nav_route appends it
NewDeparture(timestamp, uploader_id) ==
  [timestamp |-> timestamp, processed |-> FALSE, uploader_id |-> uploader_id]

AlreadyExists_OwnOnly(deps, timestamp, uploader_id) ==
  \E i \in 1..Len(deps) :
     deps[i].uploader_id = uploader_id /\ ~deps[i].processed

\* the loop that sets already_exists: the list holds an entry with the
\* identical timestamp, or an unprocessed entry of this uploader
AlreadyExists(deps, timestamp, uploader_id) ==
  \E i \in 1..Len(deps) :
     \/ deps[i].timestamp = timestamp
     \/ deps[i].uploader_id = uploader_id /\ ~deps[i].processed

RemoveOtherRoutes_Kept(pd, current_system, uploader_id) == pd

RemoveOtherRoutes_WholeRoutesOnly(pd, current_system, uploader_id) ==
  SelectSeq(pd, LAMBDA e :
     ~(/\ e.key[1] = current_system
       /\ e.deps # <<>>
       /\ \A i \in 1..Len(e.deps) :
             e.deps[i].uploader_id = uploader_id /\ ~e.deps[i].processed))

\* "Remove any OTHER routes from this uploader from this system": every
\* unprocessed entry of the uploader under a key current_system->*, and
\* every key whose list that empties
RemoveOtherRoutes(pd, current_system, uploader_id) ==
  LET Keep(dep) == ~(dep.uploader_id = uploader_id /\ ~dep.processed)
      Popped(e) == e.key[1] = current_system
                   /\ \E i \in 1..Len(e.deps) : ~Keep(e.deps[i])
      pruned == [i \in 1..Len(pd) |->
                   IF pd[i].key[1] = current_system
                   THEN [pd[i] EXCEPT !.deps = SelectSeq(@, Keep)]
                   ELSE pd[i]]
      gone == {i \in 1..Len(pd) : Popped(pd[i]) /\ pruned[i].deps = <<>>}
      RECURSIVE Rest(_)
      Rest(i) == IF i > Len(pd) THEN <<>>
                 ELSE IF i \in gone THEN Rest(i + 1)
                 ELSE <<pruned[i]>> \o Rest(i + 1)
  IN Rest(1)

\* lines 135-187: the pending departure of a route-plan
PlanDeparture(st, current_system, next_system, timestamp, uploader_id, callback, cb) ==
  LET departure_key == <<current_system, next_system>>
      pd0 == st.pending_departures
      pd1 == IF PdHas(pd0, departure_key) THEN pd0
             ELSE PdSet(pd0, departure_key, <<>>)
      already_exists ==
        AlreadyExists(PdGet(pd1, departure_key), timestamp, uploader_id)
      pd2 == RemoveOtherRoutes(pd1, current_system, uploader_id)
      pd3 == PdSet(pd2, departure_key,
                   Append(PdGet(pd2, departure_key),
                          NewDeparture(timestamp, uploader_id)))
  IN
  IF ~IsTracked(current_system) THEN st
  ELSE IF already_exists THEN [st EXCEPT !.pending_departures = pd1]
  ELSE AwaitCallback([st EXCEPT !.pending_departures = pd3],
         TrafficEvent("planned_departure", current_system, next_system, -1,
                      timestamp, uploader_id),
         callback, cb)

\* lines 196-205: the planned arrival is a duplicate of the recorded one
PlannedArrivalDuplicate(st, arrival_key, timestamp) ==
  /\ arrival_key \in DOMAIN st.recent_planned_arrivals
  /\ Parses(st.recent_planned_arrivals[arrival_key])
  /\ Parses(timestamp)
  /\ ParseTime(timestamp) - ParseTime(st.recent_planned_arrivals[arrival_key])
       < DUPLICATE_WINDOW_SECONDS

\* lines 189-219: the planned arrival of a route-plan
PlanArrival(st, current_system, next_system, timestamp, uploader_id, callback, cb) ==
  LET arrival_key == <<uploader_id, next_system>> IN
  IF ~(IsTracked(next_system) /\ next_system # current_system) THEN st
  ELSE IF PlannedArrivalDuplicate(st, arrival_key, timestamp) THEN st
  ELSE AwaitCallback(
         [st EXCEPT !.recent_planned_arrivals =
                        DictPut(@, arrival_key, timestamp)],
         TrafficEvent("planned_arrival", next_system, current_system, -1,
                      timestamp, uploader_id),
         callback, cb)

\* CommanderTracker.process_nav_route
process_nav_route(st, msg, uploader_id, clock, callback, cb) ==
  LET route == msg.Route
      timestamp == GetTimestamp(msg, clock)
      st1 == cleanup_old_routes(st, clock)
      current_system == route[1]
      next_system == route[2]
      st2 == [st1 EXCEPT !.recent_navroutes = DictPut(@, uploader_id,
                [from_system |-> current_system, to_system |-> next_system,
                 timestamp |-> timestamp])]
      st3 == PlanDeparture(st2, current_system, next_system, timestamp,
                           uploader_id, callback, cb)
  IN
  IF Len(route) < 2 \/ uploader_id = "None" THEN st
  ELSE IF st1.raised # "" THEN st1
  ELSE IF current_system = "None" \/ next_system = "None" THEN st1
  ELSE IF st3.raised # "" THEN st3
  ELSE PlanArrival(st3, current_system, next_system, timestamp, uploader_id,
                   callback, cb)

JumpIsStale_PastOnly(timestamp, clock) ==
  clock - ParseTime(timestamp) > STALE_SECONDS

\* "time_diff = abs((current_time - jump_time).total_seconds())" and
\* "if time_diff > 600: return" of process_fsd_jump
JumpIsStale(timestamp, clock) ==
  Abs(clock - ParseTime(timestamp)) > STALE_SECONDS

\* self.recent_navroutes.get(uploader_id) found nothing (None)
NO_ROUTE ==
  [from_system |-> "None", to_system |-> "None", timestamp |-> NoneStr]

SameTimestampArrival_Never(st, system_name, timestamp) == FALSE

\* lines 265-269: some arrival into the system carries the identical timestamp
SameTimestampArrival(st, system_name, timestamp) ==
  \E key \in DOMAIN st.recent_arrivals :
     key[2] = system_name /\ st.recent_arrivals[key] = timestamp

\* lines 271-278: this uploader's recorded arrival is less than 30 s earlier
RecentOwnArrival(st, arrival_key, timestamp) ==
  /\ arrival_key \in DOMAIN st.recent_arrivals
  /\ ParseTime(timestamp) - ParseTime(st.recent_arrivals[arrival_key])
       < DUPLICATE_WINDOW_SECONDS

\* lines 280-306: the arrival is counted and its event emitted
CountArrival(st, system_name, timestamp, uploader_id, nav_route, callback, cb) ==
  LET arrival_key == <<uploader_id, system_name>>
      st1 == [st EXCEPT !.recent_arrivals = DictPut(@, arrival_key, timestamp)]
      st2 == IncrementCommanders(st1, system_name)
      st3 == [st2 EXCEPT !.tracked_systems[system_name].jumps_to = @ + 1]
      event_type == IF nav_route # NO_ROUTE /\ nav_route.to_system = system_name
                    THEN "arrived_planned" ELSE "arrived"
  IN
  IF st2.raised # "" THEN st2
  ELSE AwaitCallback(st3,
         TrafficEvent(event_type, system_name, "None",
                      CommanderCount(st3, system_name), timestamp,
                      uploader_id),
         callback, cb)

FirstOpenDeparture_IgnoreAuto(st, from_system, deps) ==
  LET open == {i \in 1..Len(deps) : ~deps[i].processed}
  IN IF open = {} THEN 0 ELSE CHOOSE i \in open : \A j \in open : i <= j

\* index of the first unprocessed entry that was not auto-processed, or 0
FirstOpenDeparture(st, from_system, deps) ==
  LET open == {i \in 1..Len(deps) :
                 /\ ~deps[i].processed
                 /\ <<from_system, deps[i].timestamp>>
                      \notin st.auto_processed_departures}
  IN IF open = {} THEN 0 ELSE CHOOSE i \in open : \A j \in open : i <= j

MarkProcessed_All(departures, i) ==
  [k \in 1..Len(departures) |-> [departures[k] EXCEPT !.processed = TRUE]]

\* "dep['processed'] = True" for the entry the search found
MarkProcessed(departures, i) == [departures EXCEPT ![i].processed = TRUE]

\* lines 311-354, for one from_system: loc is [st, departure_processed]
ResolveDeparture(loc, from_system, system_name, timestamp, callback, cb) ==
  LET st == loc.st
      departure_key == <<from_system, system_name>>
      departures == PdGet(st.pending_departures, departure_key)
      i == FirstOpenDeparture(st, from_system, departures)
      st1 == [st EXCEPT !.pending_departures =
                PdSet(@, departure_key, MarkProcessed(departures, i))]
      st2 == DecrementCommanders(st1, from_system)
      st3 == [st2 EXCEPT !.tracked_systems[from_system].jumps_from = @ + 1]
      st4 == AwaitCallback(st3,
               TrafficEvent("departed", from_system, "None",
                  CommanderCount(st3, from_system), timestamp,
                  departures[i].uploader_id),
               callback, cb)
      st5 == IF i = 0 THEN st
             ELSE IF st2.raised # "" THEN st2
             ELSE st4
      st6 == IF st5.raised = ""
                /\ AllProcessed(PdGet(st5.pending_departures, departure_key))
             THEN [st5 EXCEPT !.pending_departures = PdDel(@, departure_key)]
             ELSE st5
  IN
  IF ~PdHas(st.pending_departures, departure_key) THEN loc
  ELSE [st |-> st6, departure_processed |-> (i # 0 /\ st5.raised = "")]

RECURSIVE DepartureLoop(_, _, _, _, _, _)
DepartureLoop(loc, k, system_name, timestamp, callback, cb) ==
  IF k > Len(TRACKED_ORDER) \/ loc.st.raised # "" \/ loc.departure_processed
  THEN loc
  ELSE DepartureLoop(
         ResolveDeparture(loc, TRACKED_ORDER[k], system_name, timestamp,
                          callback, cb),
         k + 1, system_name, timestamp, callback, cb)

\* lines 356-382: the departure by the uploader's cached route
FallbackDeparture(st, nav_route, system_name, timestamp, uploader_id, callback, cb) ==
  LET from_system == nav_route.from_system
      st1 == DecrementCommanders(st, from_system)
      st2 == [st1 EXCEPT !.tracked_systems[from_system].jumps_from = @ + 1]
      st3 == AwaitCallback(st2,
               TrafficEvent("departed", from_system, "None",
                  CommanderCount(st2, from_system), timestamp, uploader_id),
               callback, cb)
      st4 == IF ~(IsTracked(from_system) /\ from_system # system_name) THEN st
             ELSE IF st1.raised # "" THEN st1
             ELSE st3
  IN
  IF st4.raised # "" THEN st4
  ELSE [st4 EXCEPT !.recent_navroutes = DictDel(@, uploader_id)]

\* CommanderTracker.process_fsd_jump
process_fsd_jump(st, msg, uploader_id, clock, callback, cb) ==
  LET system_name == msg.StarSystem
      system_address == msg.SystemAddress
      timestamp == GetTimestamp(msg, clock)
      st1 == cleanup_old_routes(st, clock)
      st2 == cleanup_old_departures(st1, clock, callback)
      nav_route == DictGet(st2.recent_navroutes, uploader_id, NO_ROUTE)
      duplicate ==
        /\ IsTracked(system_name)
        /\ \/ SameTimestampArrival(st2, system_name, timestamp)
           \/ RecentOwnArrival(st2, <<uploader_id, system_name>>, timestamp)
      st3 == IF IsTracked(system_name)
             THEN CountArrival(st2, system_name, timestamp, uploader_id,
                               nav_route, callback, cb)
             ELSE st2
      loc == DepartureLoop([st |-> st3, departure_processed |-> FALSE], 1,
                           system_name, timestamp, callback, cb)
  IN
  IF system_name = "None" \/ system_address = 0 THEN st
  ELSE IF ~Parses(timestamp) THEN st
  ELSE IF JumpIsStale(timestamp, clock) THEN st
  ELSE IF st1.raised # "" THEN st1
  ELSE IF st2.raised # "" THEN st2
  ELSE IF duplicate THEN st2
  ELSE IF st3.raised # "" THEN st3
  ELSE IF loc.st.raised # "" THEN loc.st
  ELSE IF nav_route # NO_ROUTE /\ ~loc.departure_processed
       THEN FallbackDeparture(loc.st, nav_route, system_name, timestamp,
                              uploader_id, callback, cb)
       ELSE loc.st

----------------------------------------------------------------------------
(* Dispatcher: EDDNListener.process_message *)

\* "$schemaRef": the schema family it names, and whether it is written with
\* capitals ("https://eddn.edcd.io/schemas/FSSSignalDiscovered/1")
SchemaRef(family, capitals) == [family |-> family, capitals |-> capitals]

Lower_Identity(schema) == schema

\* str.lower()
Lower(schema) == [schema EXCEPT !.capitals = FALSE]

\* "word in schema", word in lower case
SchemaContains(word, schema) == schema.family = word /\ ~schema.capitals

\* cmdr_id = f"{uploader_id}_{software}" if uploader_id and software else None
CmdrId(header) ==
  IF header.uploaderID # "" /\ header.softwareName # ""
  THEN header.uploaderID \o "_" \o header.softwareName
  ELSE "None"

\* the branch of process_message a schema takes
Route(schema, msg) ==
  CASE SchemaContains("fsssignaldiscovered", schema) -> "process_fss_signals"
    [] SchemaContains("journal", schema) ->
         IF msg.event = "FSDJump" THEN "process_fsd_jump" ELSE "none"
    [] SchemaContains("navroute", schema) -> "process_nav_route"
    [] OTHER -> "none"

\* EDDNListener.process_message, without the tasks it detached
process_message(st, d, clock, cb) ==
  LET st1 == [st EXCEPT !.messages_processed = @ + 1]
      schema == Lower(d.schemaRef)
      msg == d.message
      cmdr_id == CmdrId(d.header)
      handler == Route(schema, msg)
  IN
  IF msg.empty THEN st1
  ELSE CASE handler = "process_fss_signals" ->
              process_fss_signals(st1, msg, clock, cb)
         [] handler = "process_fsd_jump" ->
              process_fsd_jump(st1, msg, cmdr_id, clock, "handle_event", cb)
         [] handler = "process_nav_route" ->
              process_nav_route(st1, msg, cmdr_id, clock, "None", cb)
         [] OTHER -> st1

\* the event loop runs the detached callback(...) coroutines: each is
\* handle_event, and an exception of the sink stays in its task
RECURSIVE RunTasks(_, _, _)
RunTasks(st, i, cb) ==
  IF i > Len(st.tasks) THEN st
  ELSE IF st.tasks[i].task # "callback" THEN RunTasks(st, i + 1, cb)
  ELSE RunTasks(
         [handle_event(st, st.tasks[i].event, cb) EXCEPT !.raised = st.raised],
         i + 1, cb)

----------------------------------------------------------------------------
(* State machine *)

\* a message body, every key present ("None", 0, NoneStr, <<>>: key missing)
Body(event, system, address, timestamp, signals, route) ==
  [empty |-> FALSE, event |-> event, StarSystem |-> system,
   SystemAddress |-> address, timestamp |-> timestamp, signals |-> signals,
   Route |-> route]

EmptyBody ==
  [empty |-> TRUE, event |-> "None", StarSystem |-> "None",
   SystemAddress |-> 0, timestamp |-> NoneStr, signals |-> <<>>,
   Route |-> <<>>]

Header(uploader, software) ==
  [uploaderID |-> uploader, softwareName |-> software]

Data(schema, header, body) ==
  [schemaRef |-> schema, header |-> header, message |-> body]

NoData == Data(SchemaRef("None", FALSE), Header("", ""), EmptyBody)

\* the objects' fields, as the handlers read and write them
Self ==
  [megaships |-> megaships, tracked_systems |-> tracked_systems,
   missing_confirmations |-> missing_confirmations,
   previous_ship_systems |-> previous_ship_systems,
   messages_processed |-> messages_processed,
   signals_checked |-> signals_checked,
   fleet_carriers_seen |-> fleet_carriers_seen,
   recent_events |-> recent_events, recent_navroutes |-> recent_navroutes,
   pending_departures |-> pending_departures,
   auto_processed_departures |-> auto_processed_departures,
   recent_arrivals |-> recent_arrivals,
   recent_planned_arrivals |-> recent_planned_arrivals,
   sink |-> <<>>, tasks |-> <<>>, raised |-> ""]

\* EDDNListener.__init__ and CommanderTracker.__init__
Init ==
  /\ now = 0
  /\ megaships = [n \in SeqRange(MEGASHIP_NAMES) |->
        [last_seen |-> NoneStr, system |-> "None", system_address |-> 0,
         signal_type |-> "None", status |-> "NOT DETECTED",
         last_checked |-> NoneStr, previous_detection |-> NoneStr]]
  /\ tracked_systems = [s \in SeqRange(TRACKED_ORDER) |->
        [commanders |-> EMPTY_SET, jumps_to |-> 0, jumps_from |-> 0,
         fleet_carriers |-> 0,
         ships |-> [n \in SeqRange(MEGASHIP_NAMES) |-> NOT_DETECTED]]]
  /\ missing_confirmations = <<>>
  /\ previous_ship_systems = <<>>
  /\ messages_processed = 0
  /\ signals_checked = 0
  /\ fleet_carriers_seen = 0
  /\ recent_events = <<>>
  /\ recent_navroutes = <<>>
  /\ pending_departures = <<>>
  /\ auto_processed_departures = {}
  /\ recent_arrivals = <<>>
  /\ recent_planned_arrivals = <<>>
  /\ data = NoData
  /\ sink = <<>>
  /\ tasks = <<>>
  /\ raised = ""
  /\ running = FALSE
  /\ messages_received = 0
  /\ zmq_pc = "idle"
  /\ start_pc = "idle"
  /\ loop_tasks = <<>>

\* the clock advances by dt seconds
Tick(dt) ==
  /\ now + dt <= MaxTime
  /\ now' = now + dt
  /\ UNCHANGED <<megaships, tracked_systems, missing_confirmations,
                 previous_ship_systems, messages_processed, signals_checked,
                 fleet_carriers_seen, recent_events, recent_navroutes,
                 pending_departures, auto_processed_departures,
                 recent_arrivals, recent_planned_arrivals, data, sink, tasks,
                 raised, messages_received>>
  /\ UNCHANGED procvars

\* message d is received and process_message(d) runs to its end with
\* callback cb, which does not suspend; its exception, if any, is caught
\* and logged.  A run handles at most limit messages.
Receive(d, cb, limit) ==
  /\ messages_processed < limit
  /\ \E st \in {RunTasks(process_message(Self, d, now, cb), 1, cb)} :
     /\ megaships' = st.megaships
     /\ tracked_systems' = st.tracked_systems
     /\ missing_confirmations' = st.missing_confirmations
     /\ previous_ship_systems' = st.previous_ship_systems
     /\ messages_processed' = st.messages_processed
     /\ signals_checked' = st.signals_checked
     /\ fleet_carriers_seen' = st.fleet_carriers_seen
     /\ recent_events' = st.recent_events
     /\ recent_navroutes' = st.recent_navroutes
     /\ pending_departures' = st.pending_departures
     /\ auto_processed_departures' = st.auto_processed_departures
     /\ recent_arrivals' = st.recent_arrivals
     /\ recent_planned_arrivals' = st.recent_planned_arrivals
     /\ sink' = st.sink
     /\ tasks' = st.tasks
     /\ raised' = st.raised
  /\ data' = d
  /\ messages_received' = messages_received + 1
  /\ UNCHANGED now
  /\ UNCHANGED procvars

----------------------------------------------------------------------------
(* Messages of the feed *)

FssSchema   == SchemaRef("fsssignaldiscovered", TRUE)
JournalSchema == SchemaRef("journal", FALSE)
NavSchema   == SchemaRef("navroute", TRUE)

Signal(name, type, timestamp) ==
  [SignalName |-> name, SignalType |-> type, timestamp |-> timestamp]

\* the SystemAddress a client reports for a system (a stand-in, never 0)
AddressOf(system) ==
  CASE system = "Nukamba" -> 1 [] system = "Graffias" -> 2 [] OTHER -> 3

\* an FSSSignalDiscovered message
FssData(system, timestamp, signals) ==
  Data(FssSchema, Header("u1", "EDMC"),
       Body("FSSSignalDiscovered", system, AddressOf(system), timestamp,
            signals, <<>>))

OtherSignal   == Signal("Jameson Base", "StationCoriolis", NoneStr)
CygnusSignal  == Signal("Cygnus", "Megaship", NoneStr)
CygnusCarrier == Signal("Cygnus", "FleetCarrier", NoneStr)

OrionSignal(ts) == Signal("The Orion", "Megaship", ts)

\* a Cygnus signal that carries a timestamp of its own
CygnusSeenAt(ts) == Signal("Cygnus", "Megaship", ts)

\* the scans of the signal processor's specification at clock value t
SignalMessages(t) ==
  {FssData("Nukamba", IsoZ(t), <<CygnusSignal>>),
   FssData("Nukamba", IsoZ(t), <<OtherSignal>>),
   FssData("Nukamba", IsoZ(t), <<CygnusCarrier>>),
   FssData("Graffias", IsoZ(t), <<CygnusSignal>>),
   FssData("Graffias", IsoOff(t), <<OtherSignal, OrionSignal(IsoZ(t - 30))>>),
   FssData("Sol", IsoZ(t), <<CygnusSignal>>),
   FssData("Nukamba", IsoZ(t - (STALE_SECONDS + 1)), <<CygnusSignal>>),
   FssData("Nukamba", IsoZ(t - (STALE_SECONDS + 1)), <<OtherSignal>>),
   FssData("Nukamba", IsoZ(t + (STALE_SECONDS + 1)), <<CygnusSignal>>),
   FssData("Nukamba", IsoZ(t + (STALE_SECONDS + 1)), <<CygnusCarrier>>),
   FssData("Nukamba", IsoZ(t - STALE_SECONDS), <<OtherSignal>>),
   FssData("Graffias", IsoZ(t + STALE_SECONDS), <<CygnusSignal>>),
   FssData("Nukamba", IsoZ(t), <<>>),
   FssData("Graffias", IsoZ(t), <<CygnusSignal, CygnusSeenAt(IsoZ(t - 10))>>)}

SignalTick == Tick(300)

SignalReceive == \E d \in SignalMessages(now) : Receive(d, "ok", MaxMessages)

NextSignal == SignalTick \/ SignalReceive

SpecSignal == Init /\ [][NextSignal]_vars

\* the scans of the debounce specification at clock value t
DebounceMessages(t) ==
  {FssData("Nukamba", IsoZ(t), <<CygnusSignal>>),
   FssData("Nukamba", IsoZ(t), <<OtherSignal>>),
   FssData("Nukamba", IsoZ(t), <<CygnusCarrier>>),
   FssData("Nukamba", IsoZ(t - (STALE_SECONDS + 1)), <<OtherSignal>>),
   FssData("Graffias", IsoZ(t), <<OtherSignal>>)}

DebounceTick == Tick(300)

DebounceReceive ==
  \E d \in DebounceMessages(now) : Receive(d, "ok", MaxScans)

NextDebounce == DebounceTick \/ DebounceReceive

SpecDebounce == Init /\ [][NextDebounce]_vars

\* a Journal FSDJump message of uploader u
JumpData(u, system, timestamp) ==
  Data(JournalSchema, Header(u, "EDMC"),
       Body("FSDJump", system, AddressOf(system), timestamp, <<>>, <<>>))

\* a NavRoute message of uploader u; route lists the StarSystem of each waypoint
RouteData(u, route, timestamp) ==
  Data(NavSchema, Header(u, "EDMC"),
       Body("NavRoute", "None", 0, timestamp, <<>>, route))

\* the messages of the route tracker's specification at clock value t
RouteMessages(t) ==
  {RouteData("u1", <<"Nukamba", "Graffias">>, IsoZ(t)),
   RouteData("u2", <<"Nukamba", "Graffias">>, IsoZ(t)),
   RouteData("u2", <<"Nukamba", "Sol">>, IsoZ(t)),
   RouteData("u1", <<"Nukamba", "Graffias">>, IsoZ(t - (STALE_SECONDS + 1))),
   JumpData("u1", "Graffias", IsoZ(t)),
   JumpData("u2", "Graffias", IsoZ(t)),
   JumpData("u1", "Graffias", IsoZ(t + 29)),
   JumpData("u1", "Graffias", IsoZ(t - (STALE_SECONDS + 1))),
   JumpData("u2", "Graffias", IsoZ(t + (STALE_SECONDS + 1))),
   JumpData("u1", "Sol", IsoZ(t))}

RouteTick == Tick(150)

RouteReceive == \E d \in RouteMessages(now) : Receive(d, "ok", MaxMessages)

NextRoute == RouteTick \/ RouteReceive

SpecRoute == Init /\ [][NextRoute]_vars

\* the messages of the fault specification at clock value t: timestamps
\* that are missing (NoneStr) or do not parse (Garbage), next to valid
\* scans, route-plans and jumps
FaultMessages(t) ==
  {RouteData("u2", <<"Nukamba", "Graffias">>, Garbage),
   RouteData("u1", <<"Nukamba", "Graffias">>, NoneStr),
   RouteData("u1", <<"Nukamba", "Graffias">>, IsoZ(t)),
   JumpData("u1", "Graffias", Garbage),
   JumpData("u1", "Graffias", NoneStr),
   JumpData("u1", "Sol", IsoZ(t)),
   FssData("Nukamba", Garbage, <<CygnusSignal>>),
   FssData("Nukamba", NoneStr, <<CygnusSignal>>),
   FssData("Nukamba", IsoZ(t), <<CygnusSignal, CygnusCarrier>>),
   FssData("Nukamba", IsoZ(t), <<OtherSignal>>)}

FaultTick == Tick(300)

\* the sink callback returns, or raises
FaultReceive ==
  \E d \in FaultMessages(now) : \E cb \in {"ok", "raise"} :
     Receive(d, cb, MaxMessages)

NextFault == FaultTick \/ FaultReceive

SpecFault == Init /\ [][NextFault]_vars

\* messages handed to process_message in one run of the planning specification
MaxPlanMessages == 4

\* the messages of the planning specification at clock value t: two
\* uploaders plan the route Nukamba -> Sol, one of them with a timestamp
\* that is earlier than, or equal to, the other's; routes into Graffias
\* from a monitored and from another system; jumps into Sol and Graffias
PlanMessages(t) ==
  {RouteData("u1", <<"Nukamba", "Sol">>, IsoZ(t)),
   RouteData("u2", <<"Nukamba", "Sol">>, IsoZ(t - 60)),
   RouteData("u2", <<"Nukamba", "Sol">>, IsoZ(t)),
   RouteData("u2", <<"Nukamba", "Graffias">>, IsoZ(t)),
   RouteData("u2", <<"Sol", "Graffias">>, IsoZ(t + 20)),
   JumpData("u2", "Sol", IsoZ(t)),
   JumpData("u2", "Graffias", IsoZ(t))}

PlanTick == Tick(150)

PlanReceive == \E d \in PlanMessages(now) : Receive(d, "ok", MaxPlanMessages)

NextPlan == PlanTick \/ PlanReceive

SpecPlan == Init /\ [][NextPlan]_vars

\* messages handed to process_message in one run of the dispatch specification
MaxDispatchMessages == 3

\* a schema none of the handlers is for
OtherSchema == SchemaRef("commodity", TRUE)

\* the body of a scan of Nukamba that sights Cygnus next to a fleet carrier
ScanBody(t) ==
  Body("FSSSignalDiscovered", "Nukamba", AddressOf("Nukamba"), IsoZ(t),
       <<CygnusSignal, CygnusCarrier>>, <<>>)

\* the messages of the dispatch specification at clock value t: each schema
\* written with and without capitals, bodies that are empty, a schema that is
\* not recognized, journal events other than FSDJump, a header without
\* uploader
DispatchMessages(t) ==
  {Data(FssSchema, Header("u1", "EDMC"), ScanBody(t)),
   Data(Lower(FssSchema), Header("u1", "EDMC"), ScanBody(t)),
   Data(FssSchema, Header("u1", "EDMC"), EmptyBody),
   Data(OtherSchema, Header("u1", "EDMC"), ScanBody(t)),
   Data(OtherSchema, Header("u1", "EDMC"),
        Body("FSDJump", "Sol", AddressOf("Sol"), IsoZ(t), <<>>,
             <<"Nukamba", "Sol">>)),
   Data(SchemaRef("journal", TRUE), Header("u1", "EDMC"),
        Body("Docked", "Graffias", AddressOf("Graffias"), IsoZ(t), <<>>, <<>>)),
   Data(SchemaRef("journal", TRUE), Header("", ""),
        Body("FSDJump", "Graffias", AddressOf("Graffias"), IsoZ(t), <<>>,
             <<>>)),
   JumpData("u1", "Sol", IsoZ(t)),
   RouteData("u1", <<"Nukamba", "Sol">>, IsoZ(t)),
   Data(Lower(NavSchema), Header("u2", "EDMC"),
        Body("NavRoute", "None", 0, IsoZ(t), <<>>, <<"Nukamba", "Graffias">>)),
   Data(NavSchema, Header("u2", "EDMC"), EmptyBody)}

DispatchTick == Tick(300)

DispatchReceive ==
  \E d \in DispatchMessages(now) : Receive(d, "ok", MaxDispatchMessages)

NextDispatch == DispatchTick \/ DispatchReceive

SpecDispatch == Init /\ [][NextDispatch]_vars

\* scans handed to process_message in one run of the visit specification
MaxVisitScans == 7

\* the scans of the visit specification at clock value t: Cygnus sighted in
\* two monitored systems and in an unmonitored one, and a scan without it
VisitMessages(t) ==
  {FssData("Nukamba", IsoZ(t), <<CygnusSignal>>),
   FssData("Graffias", IsoZ(t), <<CygnusSignal>>),
   FssData("Sol", IsoZ(t), <<CygnusSignal>>),
   FssData("Nukamba", IsoZ(t), <<OtherSignal>>)}

VisitTick == Tick(300)

VisitReceive ==
  \E d \in VisitMessages(now) : Receive(d, "ok", MaxVisitScans)

NextVisit == VisitTick \/ VisitReceive

SpecVisit == Init /\ [][NextVisit]_vars

\* scans handed to process_message in one run of the buffer specification
MaxBufferScans == 4

\* signals of the largest scan of the buffer specification
MaxBurst == 120

\* a scan of system at clock value t that sights Cygnus n times; signal i
\* carries the timestamp of second i
Burst(system, t, n) ==
  FssData(system, IsoZ(t), [i \in 1..n |-> CygnusSeenAt(IsoZ(i))])

\* the scans of the buffer specification at clock value t
BufferMessages(t) ==
  {Burst("Nukamba", t, MaxBurst),
   Burst("Sol", t, MaxBurst - 1),
   Burst("Graffias", t, 2),
   FssData("Nukamba", IsoZ(t), <<OtherSignal>>)}

BufferTick == Tick(300)

BufferReceive ==
  \E d \in BufferMessages(now) : Receive(d, "ok", MaxBufferScans)

NextBuffer == BufferTick \/ BufferReceive

SpecBuffer == Init /\ [][NextBuffer]_vars

----------------------------------------------------------------------------
(* The listener as a thread and coroutines: zmq_listener_thread hands each
   message to the event loop, which runs the process_message coroutines,
   start() and stop() one at a time, switching only where one awaits *)

\* messages the receive loop submits in one run of the loop specification
MaxLoopMessages == 3

\* the coroutine process_message(d) as run_coroutine_threadsafe submits it;
\* once started it holds the locals of process_fss_signals at its await
NewTask(d) ==
  [d |-> d, pc |-> "ready", i |-> 0, timestamp |-> NoneStr,
   found_megaships |-> {}, fleet_carrier_count |-> 0]

\* the coroutine has started and waits in "await self.callback(event_data)"
IsSuspended(task) == task.pc # "ready"

\* the outcome of running a coroutine up to its next suspension or its end
Done(st) == [st |-> st, suspended |-> FALSE, task |-> NewTask(NoData)]

SuspendedAt(loc, task, pc, i) ==
  [st |-> [loc.st EXCEPT !.raised = ""], suspended |-> TRUE,
   task |-> [task EXCEPT !.pc = pc, !.i = i,
                         !.found_megaships = loc.found_megaships,
                         !.fleet_carrier_count = loc.fleet_carrier_count]]

\* "for megaship_name in [...]" from ship i on, then the fleet carrier count
RECURSIVE RunMissing(_, _, _, _)
RunMissing(loc, task, i, cb) ==
  LET msg == task.d.message
      system == msg.StarSystem
      loc1 == CheckMissing(loc, system, msg.SystemAddress, task.timestamp,
                           MEGASHIP_NAMES[i], cb)
  IN
  IF ~IsTracked(system) THEN Done(loc.st)
  ELSE IF i > Len(MEGASHIP_NAMES)
       THEN Done([loc.st EXCEPT !.tracked_systems[system].fleet_carriers =
                                    loc.fleet_carrier_count])
  ELSE IF loc1.st.raised = "Suspended"
       THEN SuspendedAt(loc1, task, "missing", i + 1)
  ELSE IF loc1.st.raised # "" THEN Done(loc1.st)
  ELSE RunMissing(loc1, task, i + 1, cb)

\* "for signal in signals" from signal i on, then the missing check
RECURSIVE RunSignals(_, _, _, _)
RunSignals(loc, task, i, cb) ==
  LET msg == task.d.message
      loc1 == ProcessSignal(loc, msg.StarSystem, msg.SystemAddress,
                            task.timestamp, msg.signals[i], cb)
  IN
  IF i > Len(msg.signals) THEN RunMissing(loc, task, 1, cb)
  ELSE IF loc1.st.raised = "Suspended"
       THEN SuspendedAt(loc1, task, "signals", i + 1)
  ELSE IF loc1.st.raised # "" THEN Done(loc1.st)
  ELSE RunSignals(loc1, task, i + 1, cb)

\* process_fss_signals from its first line to its first suspension
StartFss(st, task, clock, cb) ==
  LET msg == task.d.message
      timestamp == GetTimestamp(msg, clock)
      loc0 == [st |-> [st EXCEPT !.signals_checked = @ + Len(msg.signals)],
               found_megaships |-> {}, fleet_carrier_count |-> 0]
  IN
  IF msg.StarSystem = "None" \/ msg.SystemAddress = 0 THEN Done(st)
  ELSE IF ~Parses(timestamp) THEN Done(st)
  ELSE IF IsStale(timestamp, clock) THEN Done(st)
  ELSE IF msg.signals = <<>> THEN Done(st)
  ELSE RunSignals(loc0, [task EXCEPT !.timestamp = timestamp], 1, cb)

\* process_message from its first line to its first suspension; the route
\* tracker's handlers run to their end
StartTask(st, task, clock, cb) ==
  LET d == task.d
      st1 == [st EXCEPT !.messages_processed = @ + 1]
  IN
  IF d.message.empty THEN Done(st1)
  ELSE IF Route(Lower(d.schemaRef), d.message) = "process_fss_signals"
       THEN StartFss(st1, task, clock, cb)
  ELSE Done(RunTasks(process_message(st, d, clock, cb), 1, cb))

\* a suspended process_message goes on after its await
ResumeTask(st, task, cb) ==
  LET loc == [st |-> st, found_megaships |-> task.found_megaships,
              fleet_carrier_count |-> task.fleet_carrier_count]
  IN IF task.pc = "signals" THEN RunSignals(loc, task, task.i, cb)
     ELSE RunMissing(loc, task, task.i, cb)

\* the fields of the objects become those of st
Store(st) ==
  /\ megaships' = st.megaships
  /\ tracked_systems' = st.tracked_systems
  /\ missing_confirmations' = st.missing_confirmations
  /\ previous_ship_systems' = st.previous_ship_systems
  /\ messages_processed' = st.messages_processed
  /\ signals_checked' = st.signals_checked
  /\ fleet_carriers_seen' = st.fleet_carriers_seen
  /\ recent_events' = st.recent_events
  /\ recent_navroutes' = st.recent_navroutes
  /\ pending_departures' = st.pending_departures
  /\ auto_processed_departures' = st.auto_processed_departures
  /\ recent_arrivals' = st.recent_arrivals
  /\ recent_planned_arrivals' = st.recent_planned_arrivals
  /\ sink' = st.sink
  /\ tasks' = st.tasks
  /\ raised' = st.raised

\* the state of the objects, which the thread and start()/stop() leave alone
objvars ==
  <<megaships, tracked_systems, missing_confirmations, previous_ship_systems,
    messages_processed, signals_checked, fleet_carriers_seen, recent_events,
    recent_navroutes, pending_departures, auto_processed_departures,
    recent_arrivals, recent_planned_arrivals, data, sink, tasks, raised>>

RemoveAt(s, k) == SubSeq(s, 1, k - 1) \o SubSeq(s, k + 1, Len(s))

\* start(): sets the flag, starts the thread and enters its keep-alive loop
Start ==
  /\ start_pc = "idle"
  /\ running' = TRUE
  /\ zmq_pc' = "check"
  /\ start_pc' = "sleep"
  /\ UNCHANGED <<now, objvars, messages_received, loop_tasks>>

ZmqCheck_NoFlag ==
  /\ zmq_pc = "check"
  /\ zmq_pc' = "recv"
  /\ UNCHANGED <<now, objvars, messages_received, running, start_pc,
                 loop_tasks>>

\* "while self.running:" of the thread; after the loop it closes the socket
ZmqCheck ==
  /\ zmq_pc = "check"
  /\ zmq_pc' = IF running THEN "recv" ELSE "closed"
  /\ UNCHANGED <<now, objvars, messages_received, running, start_pc,
                 loop_tasks>>

\* subscriber.recv() returns message d, which is handed to the loop
ZmqRecv(d) ==
  /\ zmq_pc = "recv"
  /\ messages_received < MaxLoopMessages
  /\ messages_received' = messages_received + 1
  /\ loop_tasks' = Append(loop_tasks, NewTask(d))
  /\ zmq_pc' = "check"
  /\ UNCHANGED <<now, objvars, running, start_pc>>

\* subscriber.recv() times out (zmq.error.Again) after RCVTIMEO
ZmqTimeout ==
  /\ zmq_pc = "recv"
  /\ zmq_pc' = "check"
  /\ UNCHANGED <<now, objvars, messages_received, running, start_pc,
                 loop_tasks>>

\* the loop starts the oldest coroutine not started yet
LoopStart(cb) ==
  /\ \E k \in 1..Len(loop_tasks) :
        /\ ~IsSuspended(loop_tasks[k])
        /\ \A j \in 1..(k - 1) : IsSuspended(loop_tasks[j])
        /\ \E r \in {StartTask(Self, loop_tasks[k], now, cb)} :
              /\ Store(r.st)
              /\ loop_tasks' = IF r.suspended
                               THEN [loop_tasks EXCEPT ![k] = r.task]
                               ELSE RemoveAt(loop_tasks, k)
        /\ data' = loop_tasks[k].d
  /\ UNCHANGED <<now, messages_received, running, zmq_pc, start_pc>>

\* the sink returns to the suspended coroutine k, which goes on
LoopResume(k, cb) ==
  /\ k \in 1..Len(loop_tasks)
  /\ IsSuspended(loop_tasks[k])
  /\ \E r \in {ResumeTask(Self, loop_tasks[k], cb)} :
        /\ Store(r.st)
        /\ loop_tasks' = IF r.suspended
                         THEN [loop_tasks EXCEPT ![k] = r.task]
                         ELSE RemoveAt(loop_tasks, k)
  /\ data' = loop_tasks[k].d
  /\ UNCHANGED <<now, messages_received, running, zmq_pc, start_pc>>

\* "while self.running: await asyncio.sleep(1)" of start() finds the flag
\* cleared (an iteration that finds it set changes nothing)
KeepAlive ==
  /\ start_pc = "sleep"
  /\ ~running
  /\ start_pc' = "done"
  /\ UNCHANGED <<now, objvars, messages_received, running, zmq_pc,
                 loop_tasks>>

\* stop()
Stop ==
  /\ running
  /\ running' = FALSE
  /\ UNCHANGED <<now, objvars, messages_received, zmq_pc, start_pc,
                 loop_tasks>>

\* the messages of the loop specification
LoopMessages ==
  {FssData("Nukamba", IsoZ(0), <<CygnusSignal, CygnusCarrier>>),
   FssData("Nukamba", IsoZ(0), <<OtherSignal>>),
   RouteData("u1", <<"Nukamba", "Graffias">>, IsoZ(0)),
   JumpData("u1", "Graffias", IsoZ(0))}

LoopReceive == \E d \in LoopMessages : ZmqRecv(d)

LoopRun == \E cb \in {"ok", "suspend"} : LoopStart(cb)

LoopWake ==
  \E k \in 1..MaxLoopMessages : \E cb \in {"ok", "suspend"} : LoopResume(k, cb)

NextLoop ==
  \/ Start
  \/ ZmqCheck
  \/ LoopReceive
  \/ ZmqTimeout
  \/ LoopRun
  \/ LoopWake
  \/ KeepAlive
  \/ Stop

SpecLoop == Init /\ [][NextLoop]_vars

\* the thread is scheduled and recv() returns within its timeout; the loop
\* runs start() when its sleep ends
SpecLoopFair ==
  /\ SpecLoop
  /\ WF_vars(ZmqCheck)
  /\ WF_vars(ZmqTimeout)
  /\ WF_vars(KeepAlive)

Next ==
  \/ NextSignal
  \/ NextDebounce
  \/ NextRoute
  \/ NextFault
  \/ NextPlan
  \/ NextDispatch
  \/ NextBuffer
  \/ NextVisit
  \/ NextLoop

Spec == Init /\ [][Next]_vars

----------------------------------------------------------------------------
(* Properties of the Signal Processor *)

\* the step handled one message
Handled == messages_processed' = messages_processed + 1

\* d is a signal scan whose body names system s with an address and carries
\* signals
IsScanOf(d, s) ==
  /\ d.schemaRef.family = "fsssignaldiscovered"
  /\ ~d.message.empty
  /\ d.message.StarSystem = s
  /\ d.message.SystemAddress # 0
  /\ d.message.signals # <<>>

\* the age in seconds of message d at clock value t (its timestamp parses)
AgeOf(d, t) == t - d.message.timestamp.t

HasTimestamp(d) == d.message.timestamp.str \in {"Z", "+00:00"}

\* d is a scan of s the processor accepts at clock value t
IsAcceptedScanOf(d, s, t) ==
  /\ IsScanOf(d, s)
  /\ HasTimestamp(d)
  /\ AgeOf(d, t) <= 600
  /\ AgeOf(d, t) >= -600

\* the positions of the signals of d that are ship n and no fleet carrier
Sightings(d, n) ==
  {i \in 1..Len(d.message.signals) :
     /\ d.message.signals[i].SignalName = n
     /\ d.message.signals[i].SignalType # "FleetCarrier"}

\* the positions of the signals of d named n and typed fleet carrier
CarrierNamesakes(d, n) ==
  {i \in 1..Len(d.message.signals) :
     /\ d.message.signals[i].SignalName = n
     /\ d.message.signals[i].SignalType = "FleetCarrier"}

\* the missing-confirmation count of (n, s), 0 when there is no counter
Misses(missing, n, s) ==
  IF <<n, s>> \in DOMAIN missing THEN missing[<<n, s>>] ELSE 0

\* the status of ship n in system s is a detection timestamp
ShownDetected(systems, n, s) ==
  systems[s].ships[n].str \in {"Z", "+00:00", "us+00:00"}

\* the SIGNAL MISSING events for ship n among the events es
MissingEvents(es, n) ==
  {i \in 1..Len(es) : es[i].type = "megaship" /\ es[i].name = n
                      /\ es[i].status = "SIGNAL MISSING"}

\* the detection events for ship n among the events es
DetectionEvents(es, n) ==
  {i \in 1..Len(es) : es[i].type = "megaship" /\ es[i].name = n
                      /\ es[i].status \in {"DETECTED", "IRREGULAR VISIT"}}

ShipNames == {"Cygnus", "The Orion"}
MonitoredSystems == {"Nukamba", "Graffias"}

\* what an accepted scan of s without ship n does when n is shown detected
\* in s with c misses counted: below the fifth it only counts, the fifth
\* flips the status and emits the one event
AbsenceCounted(n, s, c) ==
  /\ c <= 4
  /\ Misses(missing_confirmations', n, s) = c + 1
  /\ c < 4 =>
       /\ tracked_systems'[s].ships[n] = tracked_systems[s].ships[n]
       /\ megaships'[n] = megaships[n]
       /\ MissingEvents(sink', n) = {}
  /\ c = 4 =>
       /\ tracked_systems'[s].ships[n] = SIGNAL_MISSING
       /\ megaships'[n].status = "SIGNAL MISSING"
       /\ Cardinality(MissingEvents(sink', n)) = 1
       /\ \A i \in MissingEvents(sink', n) :
            /\ sink'[i].system = s
            /\ sink'[i].previous_detection = tracked_systems[s].ships[n]
            /\ sink'[i].timestamp = data'.message.timestamp

SightingTimestamp(d, i) ==
  IF d.message.signals[i].timestamp = NoneStr THEN d.message.timestamp
  ELSE d.message.signals[i].timestamp

LastSighting(d, n) ==
  CHOOSE i \in Sightings(d, n) : \A j \in Sightings(d, n) : j <= i

\* C2 (counter reset): an accepted scan of monitored system s that sights
\* ship n with a type other than fleet carrier leaves no missing-confirmation
\* counter for (n, s), whatever its value was, shows n detected in s with
\* the timestamp of the sighting and the global status DETECTED in s, and
\* emits no SIGNAL MISSING event for n; by C1 the next SIGNAL MISSING then
\* needs five absent scans again.
C2_CounterReset ==
  [][\A n \in ShipNames : \A s \in MonitoredSystems :
       (Handled /\ IsAcceptedScanOf(data', s, now) /\ Sightings(data', n) # {})
         => /\ <<n, s>> \notin DOMAIN missing_confirmations'
            /\ tracked_systems'[s].ships[n]
                 = SightingTimestamp(data', LastSighting(data', n))
            /\ ShownDetected(tracked_systems', n, s)
            /\ megaships'[n].status = "DETECTED"
            /\ megaships'[n].system = s
            /\ MissingEvents(sink', n) = {}]_vars

\* Cygnus is detected again in Nukamba after SIGNAL MISSING was reached
\* there: the counter that stood at 5 is gone
C2_Witness ==
  /\ IsScanOf(data, "Nukamba")
  /\ Sightings(data, "Cygnus") # {}
  /\ ShownDetected(tracked_systems, "Cygnus", "Nukamba")
  /\ <<"Cygnus", "Nukamba">> \notin DOMAIN missing_confirmations
  /\ Len(recent_events) = 3
  /\ recent_events[2].status = "SIGNAL MISSING"
  /\ recent_events[2].system = "Nukamba"
  /\ recent_events[3].status = "DETECTED"

\* the push notifications fn detached for ship n among the tasks ts
Notifications(ts, fn, n) ==
  {i \in 1..Len(ts) : ts[i].task = fn /\ ts[i].name = n}

AllSystems == MonitoredSystems \cup {"Sol"}

\* C3 (type exclusion): an accepted scan whose only signals named n are
\* typed fleet carrier emits no detection event for n, detaches no
\* "appeared" notification, leaves the last-known system of n alone and
\* clears no counter; the scan counts as one without n: where n is shown
\* detected in the scanned monitored system the absence is counted as in
\* C1, and everywhere else the status of n and its counters are unchanged.
C3_TypeExclusion ==
  [][\A n \in ShipNames : \A s \in AllSystems :
       (/\ Handled
        /\ IsAcceptedScanOf(data', s, now)
        /\ CarrierNamesakes(data', n) # {}
        /\ Sightings(data', n) = {})
         => /\ DetectionEvents(sink', n) = {}
            /\ Notifications(tasks', "send_ship_appeared", n) = {}
            /\ DictGet(previous_ship_systems', n, "None")
                 = DictGet(previous_ship_systems, n, "None")
            /\ \A s2 \in MonitoredSystems :
                 IF s2 = s /\ ShownDetected(tracked_systems, n, s)
                 THEN AbsenceCounted(n, s,
                        Misses(missing_confirmations, n, s))
                 ELSE /\ tracked_systems'[s2].ships[n]
                           = tracked_systems[s2].ships[n]
                      /\ Misses(missing_confirmations', n, s2)
                           = Misses(missing_confirmations, n, s2)
            /\ (~(s \in MonitoredSystems
                  /\ ShownDetected(tracked_systems, n, s)))
                 => megaships'[n] = megaships[n]]_vars

\* a scan of Nukamba whose one signal is a fleet carrier named Cygnus was
\* counted as the second scan in a row without the ship
C3_Witness ==
  /\ IsScanOf(data, "Nukamba")
  /\ CarrierNamesakes(data, "Cygnus") # {}
  /\ HasTimestamp(data) /\ AgeOf(data, now) = 0
  /\ ShownDetected(tracked_systems, "Cygnus", "Nukamba")
  /\ Misses(missing_confirmations, "Cygnus", "Nukamba") = 2
  /\ tracked_systems["Nukamba"].fleet_carriers = 1
  /\ sink = <<>>

\* C4 (jump notification), as claimed: the sixth accepted scan in a row of
\* monitored system s without ship n (the count of (n, s) stands at 5)
\* detaches exactly one "jumped" notification for n with origin s and
\* leaves the last-known-system pointer unchanged.
C4_JumpNotification ==
  [][\A n \in ShipNames : \A s \in MonitoredSystems :
       (/\ Handled
        /\ IsAcceptedScanOf(data', s, now)
        /\ Sightings(data', n) = {}
        /\ Misses(missing_confirmations, n, s) = 5)
         => /\ Cardinality(Notifications(tasks', "send_ship_jumped", n)) = 1
            /\ \A i \in Notifications(tasks', "send_ship_jumped", n) :
                 tasks'[i].system = s
            /\ previous_ship_systems' = previous_ship_systems]_vars

\* C5 (stale scans): a signal scan whose timestamp is more than 600 seconds
\* from the clock, in the past or in the future, changes no ship record, no
\* per-system status, no counter, no fleet carrier count and no buffer, and
\* emits no event and no notification; a scan exactly 600 seconds off is
\* processed: its signals are counted and its sightings emitted.
C5_StaleScanIgnored ==
  [][\A s \in AllSystems :
       (Handled /\ IsScanOf(data', s) /\ HasTimestamp(data'))
         => /\ (AgeOf(data', now) > 600 \/ AgeOf(data', now) < -600)
                 => /\ UNCHANGED <<megaships, tracked_systems,
                                   missing_confirmations,
                                   previous_ship_systems, signals_checked,
                                   fleet_carriers_seen, recent_events>>
                    /\ sink' = <<>>
                    /\ tasks' = <<>>
            /\ (AgeOf(data', now) = 600 \/ AgeOf(data', now) = -600)
                 => /\ signals_checked'
                         = signals_checked + Len(data'.message.signals)
                    /\ \A n \in ShipNames :
                         Cardinality(DetectionEvents(sink', n))
                           = Cardinality(Sightings(data', n))]_vars

\* a scan of Nukamba 601 seconds old, without Cygnus, was handled while one
\* absence was counted: the count still stands at 1
C5_Witness ==
  /\ IsScanOf(data, "Nukamba")
  /\ HasTimestamp(data) /\ AgeOf(data, now) = 601
  /\ Sightings(data, "Cygnus") = {}
  /\ ShownDetected(tracked_systems, "Cygnus", "Nukamba")
  /\ Misses(missing_confirmations, "Cygnus", "Nukamba") = 1
  /\ messages_processed = 3

----------------------------------------------------------------------------
(* Properties of the Route Tracker *)

\* d is a jump-confirmed message that names a system and an address
IsJump(d) ==
  /\ d.schemaRef.family = "journal"
  /\ ~d.message.empty
  /\ d.message.event = "FSDJump"
  /\ d.message.StarSystem # "None"
  /\ d.message.SystemAddress # 0

\* d is a jump-confirmed into system s the tracker accepts at clock value t
IsAcceptedJumpInto(d, s, t) ==
  /\ IsJump(d)
  /\ d.message.StarSystem = s
  /\ HasTimestamp(d)
  /\ AgeOf(d, t) <= 600
  /\ AgeOf(d, t) >= -600

\* d is a route-plan message with at least two waypoints and an uploader
IsRoutePlan(d) ==
  /\ d.schemaRef.family = "navroute"
  /\ ~d.message.empty
  /\ Len(d.message.Route) >= 2
  /\ d.header.uploaderID # "" /\ d.header.softwareName # ""

\* the uploader id the dispatcher hands to the tracker for d
Uploader(d) == d.header.uploaderID \o "_" \o d.header.softwareName

Uploaders == {"u1_EDMC", "u2_EDMC"}

\* the commander count of system s as the snapshot reports it
CountOf(systems, s) == systems[s].commanders.n

\* the arrival events for system s among the events es
ArrivalEvents(es, s) ==
  {i \in 1..Len(es) : es[i].type = "system_traffic" /\ es[i].system = s
                      /\ es[i].name \in {"arrived", "arrived_planned"}}

\* C6 (stale jumps): a jump-confirmed message whose timestamp is more than
\* 600 seconds from the clock changes nothing in the route tracker (planned
\* routes, pending departures, auto-resolution keys, arrival markers,
\* counters), emits no event and raises nothing.
C6_StaleJumpIgnored ==
  [][(/\ Handled
      /\ IsJump(data')
      /\ HasTimestamp(data')
      /\ (AgeOf(data', now) > 600 \/ AgeOf(data', now) < -600))
       => /\ UNCHANGED <<recent_navroutes, pending_departures,
                         auto_processed_departures, recent_arrivals,
                         recent_planned_arrivals, tracked_systems,
                         recent_events>>
          /\ sink' = <<>>
          /\ tasks' = <<>>
          /\ raised' = ""]_vars

\* a jump 601 seconds old was handled while a pending departure was older
\* than 300 seconds and a planned route older than 180 seconds: both are
\* still there
C6_Witness ==
  /\ IsJump(data)
  /\ HasTimestamp(data) /\ AgeOf(data, now) = 601
  /\ pending_departures # <<>>
  /\ \E i \in 1..Len(pending_departures[1].deps) :
        /\ ~pending_departures[1].deps[i].processed
        /\ now - pending_departures[1].deps[i].timestamp.t > 300
  /\ auto_processed_departures = {}
  /\ \E u \in DOMAIN recent_navroutes :
        now - recent_navroutes[u].timestamp.t > 180

\* C7 (stale route plans), as claimed: a route-plan message whose timestamp
\* is more than 600 seconds from the clock caches no planned route, appends
\* no pending departure, records no planned arrival and emits no event.
C7_StaleRoutePlanIgnored ==
  [][(/\ Handled
      /\ IsRoutePlan(data')
      /\ HasTimestamp(data')
      /\ (AgeOf(data', now) > 600 \/ AgeOf(data', now) < -600))
       => /\ UNCHANGED <<recent_navroutes, pending_departures,
                         recent_planned_arrivals>>
          /\ sink' = <<>>]_vars

\* uploader u has the one pending departure of route a -> b and its planned
\* route a -> b is at most 180 seconds old at clock value t
Paired(u, a, b, t) ==
  /\ u \in DOMAIN recent_navroutes
  /\ recent_navroutes[u].from_system = a
  /\ recent_navroutes[u].to_system = b
  /\ t - recent_navroutes[u].timestamp.t <= 180
  /\ PdHas(pending_departures, <<a, b>>)
  /\ Len(PdGet(pending_departures, <<a, b>>)) = 1
  /\ PdGet(pending_departures, <<a, b>>)[1].uploader_id = u
  /\ ~PdGet(pending_departures, <<a, b>>)[1].processed

\* no recorded arrival into s makes a jump of u with timestamp ts a duplicate
NoDuplicateArrival(u, s, ts) ==
  /\ \A key \in DOMAIN recent_arrivals :
        key[2] = s => recent_arrivals[key] # ts
  /\ <<u, s>> \in DOMAIN recent_arrivals
        => ts.t - recent_arrivals[<<u, s>>].t >= 30

\* C8 (pairing), as claimed: when uploader u, whose route-plan a -> b is the
\* one pending departure of that route, jumps into b within 180 seconds of
\* the plan, the entry is resolved, the count of a goes down by one (not
\* below 0) and its jumps_from up by one, the count and jumps_to of b go up
\* by one, and the events emitted are arrived_planned for b, then departed
\* for a.
C8_Pairing ==
  [][\A u \in Uploaders : \A a \in MonitoredSystems : \A b \in MonitoredSystems :
       (/\ Handled
        /\ IsAcceptedJumpInto(data', b, now)
        /\ Uploader(data') = u
        /\ a # b
        /\ Paired(u, a, b, now)
        /\ NoDuplicateArrival(u, b, data'.message.timestamp))
         => /\ ~PdHas(pending_departures', <<a, b>>)
            /\ CountOf(tracked_systems', a)
                 = Max(0, CountOf(tracked_systems, a) - 1)
            /\ tracked_systems'[a].jumps_from
                 = tracked_systems[a].jumps_from + 1
            /\ CountOf(tracked_systems', b) = CountOf(tracked_systems, b) + 1
            /\ tracked_systems'[b].jumps_to = tracked_systems[b].jumps_to + 1
            /\ Len(sink') = 2
            /\ sink'[1].name = "arrived_planned" /\ sink'[1].system = b
            /\ sink'[2].name = "departed" /\ sink'[2].system = a]_vars

\* C9 (cross-uploader dedup), as claimed: an accepted jump into monitored s
\* whose timestamp equals that of a recorded arrival into s is skipped, and
\* one that no recorded arrival makes a duplicate is counted, so that the
\* jumps into s with one timestamp add one to its count and its jumps_to
\* once in total.
C9_CrossUploaderDedup ==
  [][\A s \in MonitoredSystems :
       (Handled /\ IsAcceptedJumpInto(data', s, now))
         => IF \E key \in DOMAIN recent_arrivals :
                  key[2] = s /\ recent_arrivals[key] = data'.message.timestamp
            THEN /\ tracked_systems'[s] = tracked_systems[s]
                 /\ ArrivalEvents(sink', s) = {}
            ELSE NoDuplicateArrival(Uploader(data'), s,
                                    data'.message.timestamp)
                   => /\ tracked_systems'[s].jumps_to
                           = tracked_systems[s].jumps_to + 1
                      /\ CountOf(tracked_systems', s)
                           = CountOf(tracked_systems, s) + 1]_vars

\* C10 (same-uploader dedup), as claimed: an accepted jump of uploader u
\* into monitored s less than 30 seconds after u's recorded arrival into s
\* is skipped, and one 30 seconds or more after it (that no other uploader's
\* arrival makes a duplicate) is counted.
C10_SameUploaderDedup ==
  [][\A s \in MonitoredSystems : \A u \in Uploaders :
       (/\ Handled
        /\ IsAcceptedJumpInto(data', s, now)
        /\ Uploader(data') = u
        /\ <<u, s>> \in DOMAIN recent_arrivals)
         => LET gap == data'.message.timestamp.t
                         - recent_arrivals[<<u, s>>].t
            IN /\ (gap >= 0 /\ gap < 30)
                    => /\ tracked_systems'[s] = tracked_systems[s]
                       /\ ArrivalEvents(sink', s) = {}
               /\ (gap >= 30
                   /\ NoDuplicateArrival(u, s, data'.message.timestamp))
                    => /\ tracked_systems'[s].jumps_to
                            = tracked_systems[s].jumps_to + 1
                       /\ CountOf(tracked_systems', s)
                            = CountOf(tracked_systems, s) + 1
                       /\ Cardinality(ArrivalEvents(sink', s)) = 1]_vars

----------------------------------------------------------------------------
(* Properties of the timeout cleanup and of pending departures *)

\* d is a jump-confirmed message the tracker accepts at clock value t
IsAcceptedJump(d, t) ==
  /\ IsJump(d)
  /\ HasTimestamp(d)
  /\ AgeOf(d, t) <= 600
  /\ AgeOf(d, t) >= -600

\* the pending entries: <<k, i>> is entry i of the k-th route of pd
Entries(pd) ==
  {e \in (1..Len(pd)) \X (1..3) : e[2] <= Len(pd[e[1]].deps)}

EntryOf(pd, e) == pd[e[1]].deps[e[2]]

OriginOf(pd, e) == pd[e[1]].key[1]

\* entry e is unprocessed and more than 300 seconds old at clock value t
Overdue(pd, e, t) ==
  /\ ~EntryOf(pd, e).processed
  /\ Parses(EntryOf(pd, e).timestamp)
  /\ t - ParseTime(EntryOf(pd, e).timestamp) > 300

\* an overdue entry from origin a with timestamp ts that no cleanup has
\* met before
FreshOverdue(a, ts) ==
  /\ <<a, ts>> \notin auto_processed_departures
  /\ \E e \in Entries(pending_departures) :
        /\ OriginOf(pending_departures, e) = a
        /\ EntryOf(pending_departures, e).timestamp = ts
        /\ Overdue(pending_departures, e, now)

\* the departed_timeout events for origin a and departure timestamp ts
TimeoutEvents(es, a, ts) ==
  {i \in 1..Len(es) : /\ es[i].type = "system_traffic"
                      /\ es[i].name = "departed_timeout"
                      /\ es[i].system = a
                      /\ es[i].timestamp = ts}

PendingTimestamps(a) ==
  {EntryOf(pending_departures, e).timestamp :
     e \in {x \in Entries(pending_departures) :
              OriginOf(pending_departures, x) = a}}

\* C11 (timeout idempotence), as claimed: the first cleanup that meets an
\* overdue unmatched entry emits one departed_timeout event for it,
\* decrements the origin's count (floor 0) and increments its jumps_from;
\* every later cleanup emits no departed_timeout event for it.
C11_TimeoutOnce ==
  [][(Handled /\ IsAcceptedJump(data', now))
       => \A a \in MonitoredSystems : \A ts \in PendingTimestamps(a) :
            IF FreshOverdue(a, ts)
            THEN /\ Cardinality(TimeoutEvents(sink', a, ts)) = 1
                 /\ tracked_systems'[a].jumps_from
                      >= tracked_systems[a].jumps_from + 1
            ELSE TimeoutEvents(sink', a, ts) = {}]_vars

\* C12 (timeout completeness), as claimed: after an accepted jump-confirmed
\* message is handled, no pending entry is both unprocessed and more than
\* 300 seconds old.
C12_TimeoutComplete ==
  [][(Handled /\ IsAcceptedJump(data', now))
       => \A e \in Entries(pending_departures') :
            ~Overdue(pending_departures', e, now)]_vars

\* C13 (count never negative), as claimed: the commander count of every
\* monitored system is an integer, and it is at least 0.
C13_CountIsNatural ==
  \A s \in MonitoredSystems :
     /\ tracked_systems[s].commanders.type = "int"
     /\ tracked_systems[s].commanders.n >= 0

\* entry e of pending_departures is unprocessed before the step and resolved
\* by it: marked processed, or its route deleted as fully processed (a jump
\* handler never moves an entry inside its list)
NewlyResolved(e) ==
  LET key == pending_departures[e[1]].key IN
  /\ ~EntryOf(pending_departures, e).processed
  /\ \/ ~PdHas(pending_departures', key)
     \/ PdGet(pending_departures', key)[e[2]].processed

NewlyResolvedFrom(a) ==
  {e \in Entries(pending_departures) :
     OriginOf(pending_departures, e) = a /\ NewlyResolved(e)}

\* the departure events (departed, departed_timeout) for origin a
DepartureEvents(es, a) ==
  {i \in 1..Len(es) : /\ es[i].type = "system_traffic"
                      /\ es[i].name \in {"departed", "departed_timeout"}
                      /\ es[i].system = a}

\* 1 when the uploader of d has a cached route out of a (the departure that
\* the cached route alone stands for), else 0
CachedRouteFrom(d, a) ==
  IF /\ Uploader(d) \in DOMAIN recent_navroutes
     /\ recent_navroutes[Uploader(d)].from_system = a
  THEN 1 ELSE 0

\* C14 (resolved at most once): a processed entry stays processed for as
\* long as its route is pending; only a jump-confirmed message resolves
\* entries; an entry whose idempotence key (origin, timestamp) a timeout
\* cleanup has recorded is never resolved by a later step; and a step adds
\* to an origin's jumps_from, and emits departure events for it, at most
\* once per entry it resolves (plus the one departure a cached route of the
\* uploader stands for).
C14_ResolvedOnce ==
  [][/\ \A e \in Entries(pending_departures) :
          LET key == pending_departures[e[1]].key
              dep == EntryOf(pending_departures, e)
          IN (dep.processed /\ PdHas(pending_departures', key))
               => \E j \in 1..Len(PdGet(pending_departures', key)) :
                     PdGet(pending_departures', key)[j] = dep
     /\ ~IsJump(data')
          => \A e \in Entries(pending_departures') :
               EntryOf(pending_departures', e).processed
                 => \E f \in Entries(pending_departures) :
                       /\ pending_departures[f[1]].key
                            = pending_departures'[e[1]].key
                       /\ EntryOf(pending_departures, f)
                            = EntryOf(pending_departures', e)
     /\ (Handled /\ IsJump(data'))
          => \A a \in MonitoredSystems :
               /\ \A e \in NewlyResolvedFrom(a) :
                     <<a, EntryOf(pending_departures, e).timestamp>>
                        \notin auto_processed_departures
               /\ tracked_systems'[a].jumps_from - tracked_systems[a].jumps_from
                     <= Cardinality(NewlyResolvedFrom(a))
                          + CachedRouteFrom(data', a)
               /\ Cardinality(DepartureEvents(sink', a))
                     <= Cardinality(NewlyResolvedFrom(a))
                          + CachedRouteFrom(data', a)]_vars

\* a jump into Sol ran its matching-arrival search to the end over the
\* route Nukamba -> Sol while that route held an unprocessed entry that a
\* timeout cleanup had recorded: the entry was not resolved again
C14_Witness ==
  /\ IsAcceptedJump(data, now)
  /\ data.message.StarSystem = "Sol"
  /\ raised = ""
  /\ PdHas(pending_departures, <<"Nukamba", "Sol">>)
  /\ \E i \in 1..Len(PdGet(pending_departures, <<"Nukamba", "Sol">>)) :
        LET dep == PdGet(pending_departures, <<"Nukamba", "Sol">>)[i] IN
        /\ ~dep.processed
        /\ <<"Nukamba", dep.timestamp>> \in auto_processed_departures

----------------------------------------------------------------------------
(* Properties of error handling *)

\* d is a route-plan message the tracker accepts at clock value t
IsAcceptedRoutePlan(d, t) ==
  /\ IsRoutePlan(d)
  /\ HasTimestamp(d)
  /\ AgeOf(d, t) <= 600
  /\ AgeOf(d, t) >= -600

\* the planned route process_nav_route caches for route-plan d
PlannedRoute(d) ==
  [from_system |-> d.message.Route[1], to_system |-> d.message.Route[2],
   timestamp |-> d.message.timestamp]

\* C15 (one bad message cannot halt processing), as claimed: whatever was
\* handled before, no exception stops a valid route-plan from being cached
\* as the uploader's planned route, and a valid scan that sights a ship in
\* a monitored system stores the sighting.
C15_BadMessageIsolated ==
  [][/\ (Handled /\ IsAcceptedRoutePlan(data', now))
          => /\ Uploader(data') \in DOMAIN recent_navroutes'
             /\ recent_navroutes'[Uploader(data')] = PlannedRoute(data')
     /\ \A s \in MonitoredSystems : \A n \in ShipNames :
          (Handled /\ IsAcceptedScanOf(data', s, now)
             /\ Sightings(data', n) # {})
            => tracked_systems'[s].ships[n]
                 = SightingTimestamp(data', LastSighting(data', n))]_vars

\* the state the claim lists, as process_message leaves it for message d
\* when the sink callback behaves as cb
StateAfter(d, cb) ==
  LET st == RunTasks(process_message(Self, d, now, cb), 1, cb) IN
  <<st.megaships, st.tracked_systems, st.missing_confirmations,
    st.previous_ship_systems, st.pending_departures, st.recent_navroutes>>

\* C16 (sink isolation), as claimed: the ship and per-system status, the
\* missing-confirmation counters, the carrier and commander counts and the
\* pending departures a handled message leaves are those it leaves when
\* the sink callback succeeds.
C16_SinkIsolated ==
  [][Handled
       => <<megaships', tracked_systems', missing_confirmations',
            previous_ship_systems', pending_departures', recent_navroutes'>>
            = StateAfter(data', "ok")]_vars

\* d is a scan, a jump-confirmed or a route-plan message that passes every
\* check of its handler but those on the timestamp
IsTimedMessage(d) ==
  \/ \E s \in AllSystems : IsScanOf(d, s)
  \/ IsJump(d)
  \/ IsRoutePlan(d)

\* C19 (missing or unparseable timestamp), as claimed: a scan, jump or
\* route-plan whose timestamp is missing or does not parse changes no state
\* and emits no event.
C19_UntimedDiscarded ==
  [][(Handled /\ IsTimedMessage(data') /\ ~HasTimestamp(data'))
       => /\ UNCHANGED <<megaships, tracked_systems, missing_confirmations,
                         previous_ship_systems, signals_checked,
                         fleet_carriers_seen, recent_events,
                         recent_navroutes, pending_departures,
                         auto_processed_departures, recent_arrivals,
                         recent_planned_arrivals>>
          /\ sink' = <<>>
          /\ tasks' = <<>>]_vars

----------------------------------------------------------------------------
(* Properties of the planning events *)

\* the planned_departure events a -> b among the events es
PlannedDepartureEvents(es, a, b) ==
  {i \in 1..Len(es) : /\ es[i].type = "system_traffic"
                      /\ es[i].name = "planned_departure"
                      /\ es[i].system = a
                      /\ es[i].other = b}

\* route-plan d is skipped as a duplicate: the route a -> b already holds an
\* entry with its timestamp, or an unprocessed entry of its uploader
IsDuplicatePlan(d, a, b) ==
  /\ PdHas(pending_departures, <<a, b>>)
  /\ AlreadyExists(PdGet(pending_departures, <<a, b>>), d.message.timestamp,
                   Uploader(d))

\* C20 (planned departure event), as claimed: a handled route-plan a -> b
\* with a monitored, that is not skipped as a duplicate, delivers exactly
\* one planned_departure event a -> b to the sink and appends it to the
\* recent events.
C20_PlannedDepartureEvent ==
  [][\A a \in MonitoredSystems : \A b \in AllSystems :
       (/\ Handled
        /\ IsAcceptedRoutePlan(data', now)
        /\ data'.message.Route[1] = a
        /\ data'.message.Route[2] = b
        /\ ~IsDuplicatePlan(data', a, b))
         => /\ Cardinality(PlannedDepartureEvents(sink', a, b)) = 1
            /\ Len(recent_events') = Len(recent_events) + 1
            /\ recent_events'[Len(recent_events')].name
                 = "planned_departure"]_vars

----------------------------------------------------------------------------
(* Properties of the threads and coroutines *)

\* C17 (one message at a time), as claimed: a handler starts only when no
\* earlier handler is suspended at an await of the sink, so no two handlers
\* interleave.
C17_NoInterleaving ==
  [][Handled => \A k \in 1..Len(loop_tasks) : ~IsSuspended(loop_tasks[k])]_vars

\* stop() has cleared the flag that start() had set
Stopped == start_pc # "idle" /\ ~running

\* the receive loop has left its loop and start() has returned
Terminated == zmq_pc = "closed" /\ start_pc = "done"

\* C18 (shutdown): once stop() has cleared the flag, the thread only ends
\* the receive attempt it is in and then leaves its loop, never beginning
\* another attempt; and the thread and the keep-alive loop of start() both
\* terminate, whether or not the loop ever runs the pending handlers.
C18_Shutdown ==
  /\ [][(Stopped /\ zmq_pc' # zmq_pc)
          => \/ zmq_pc = "recv" /\ zmq_pc' = "check"
             \/ zmq_pc = "check" /\ zmq_pc' = "closed"]_vars
  /\ (Stopped ~> Terminated)

\* both have terminated while a submitted message was never started and
\* another handler is still suspended
C18_Witness ==
  /\ Stopped
  /\ Terminated
  /\ \E k \in 1..Len(loop_tasks) : IsSuspended(loop_tasks[k])
  /\ \E k \in 1..Len(loop_tasks) : ~IsSuspended(loop_tasks[k])

----------------------------------------------------------------------------
(* Properties of detections and of the fleet carrier count *)

\* the last-known system of ship n, "None" while it was never recorded
LastKnown(previous, n) == DictGet(previous, n, "None")

\* C21 (appearance notification), as claimed: an accepted scan of system s,
\* monitored or not, that sights ship n while the last-known system of n is
\* another system detaches exactly one "appeared" notification for n, in s,
\* and makes s the last-known system; a sighting in the last-known system
\* detaches none.
C21_AppearanceNotification ==
  [][\A n \in ShipNames : \A s \in AllSystems :
       (Handled /\ IsAcceptedScanOf(data', s, now) /\ Sightings(data', n) # {})
         => /\ (/\ LastKnown(previous_ship_systems, n) # "None"
                /\ LastKnown(previous_ship_systems, n) # s)
                 => /\ Cardinality(
                         Notifications(tasks', "send_ship_appeared", n)) = 1
                    /\ \A i \in Notifications(tasks', "send_ship_appeared", n) :
                         tasks'[i].system = s
                    /\ LastKnown(previous_ship_systems', n) = s
            /\ LastKnown(previous_ship_systems, n) = s
                 => Notifications(tasks', "send_ship_appeared", n) = {}]_vars

\* the status a sighting in system s gives a ship
StatusIn(s) ==
  IF s \in MonitoredSystems THEN "DETECTED" ELSE "IRREGULAR VISIT"

\* event e is the detection event of the sighting at position i of scan d
IsDetectionOf(e, d, i) ==
  /\ e.type = "megaship"
  /\ e.name = d.message.signals[i].SignalName
  /\ e.system = d.message.StarSystem
  /\ e.status = StatusIn(d.message.StarSystem)
  /\ e.has_irregular
  /\ e.is_irregular = (d.message.StarSystem \notin MonitoredSystems)
  /\ e.timestamp = SightingTimestamp(d, i)

\* C22 (detection): an accepted scan of system s that sights ship n leaves
\* the ship's status DETECTED when s is monitored and IRREGULAR VISIT when
\* it is not, with the system s and the timestamp of the (last) sighting,
\* shows that timestamp as the status of n in s when s is monitored, and
\* emits one megaship event per sighting, in the order of the signals, each
\* with that status, the matching is_irregular flag and the timestamp of its
\* signal.
C22_Detection ==
  [][\A n \in ShipNames : \A s \in AllSystems :
       (Handled /\ IsAcceptedScanOf(data', s, now) /\ Sightings(data', n) # {})
         => /\ megaships'[n].status = StatusIn(s)
            /\ megaships'[n].system = s
            /\ megaships'[n].last_seen
                 = SightingTimestamp(data', LastSighting(data', n))
            /\ s \in MonitoredSystems
                 => tracked_systems'[s].ships[n]
                      = SightingTimestamp(data', LastSighting(data', n))
            /\ Cardinality(DetectionEvents(sink', n))
                 = Cardinality(Sightings(data', n))
            /\ \A i \in Sightings(data', n) :
                 \E k \in DetectionEvents(sink', n) :
                    /\ IsDetectionOf(sink'[k], data', i)
                    /\ Cardinality({j \in DetectionEvents(sink', n) : j < k})
                         = Cardinality({j \in Sightings(data', n) : j < i})]_vars

\* Cygnus, last detected in a monitored system, was sighted in Sol: its
\* status is IRREGULAR VISIT and the one event of the scan says so
C22_Witness ==
  /\ IsAcceptedScanOf(data, "Sol", now)
  /\ Sightings(data, "Cygnus") = {1}
  /\ megaships["Cygnus"].status = "IRREGULAR VISIT"
  /\ megaships["Cygnus"].system = "Sol"
  /\ Len(sink) = 1
  /\ IsDetectionOf(sink[1], data, 1)
  /\ sink[1].is_irregular
  /\ \E s \in MonitoredSystems : ShownDetected(tracked_systems, "Cygnus", s)

\* d is a signal scan whose body names system s with an address, whether or
\* not it carries signals
IsAnyScanOf(d, s) ==
  /\ d.schemaRef.family = "fsssignaldiscovered"
  /\ ~d.message.empty
  /\ d.message.StarSystem = s
  /\ d.message.SystemAddress # 0

\* the positions of the signals of d typed fleet carrier
CarrierSignals(d) ==
  {i \in 1..Len(d.message.signals) :
     d.message.signals[i].SignalType = "FleetCarrier"}

\* C23 (fleet carrier count), as claimed: after an accepted scan of
\* monitored system s, with or without signals, the fleet carrier count of s
\* is the number of signals of that scan typed fleet carrier.
C23_CarrierCount ==
  [][\A s \in MonitoredSystems :
       (/\ Handled
        /\ IsAnyScanOf(data', s)
        /\ HasTimestamp(data')
        /\ AgeOf(data', now) <= 600
        /\ AgeOf(data', now) >= -600)
         => tracked_systems'[s].fleet_carriers
              = Cardinality(CarrierSignals(data'))]_vars

----------------------------------------------------------------------------
(* Properties of departures *)

\* the departed events (arrival matching or fallback) among the events es
DepartedEvents(es) ==
  {i \in 1..Len(es) : es[i].type = "system_traffic" /\ es[i].name = "departed"}

\* the departed_timeout events for origin a among the events es
TimeoutEventsFrom(es, a) ==
  {i \in 1..Len(es) : /\ es[i].type = "system_traffic"
                      /\ es[i].name = "departed_timeout"
                      /\ es[i].system = a}

\* the departures from a the step counted that are no timeout resolutions
MatchedDeparturesFrom(a) ==
  (tracked_systems'[a].jumps_from - tracked_systems[a].jumps_from)
    - Cardinality(TimeoutEventsFrom(sink', a))

\* the entries the step resolved that no timeout cleanup has recorded
NewlyMatched ==
  {e \in Entries(pending_departures) :
     /\ NewlyResolved(e)
     /\ <<OriginOf(pending_departures, e),
          EntryOf(pending_departures, e).timestamp>>
          \notin auto_processed_departures'}

\* C24 (one departure per jump): handling one jump-confirmed message marks
\* at most one pending entry resolved through arrival matching, counts a
\* departure that is no timeout resolution for at most one origin, and for
\* that origin once, changes the commander count of at most one origin, and
\* emits at most one departed event.
C24_OneDeparturePerJump ==
  [][(Handled /\ IsJump(data'))
       => /\ Cardinality(NewlyMatched) <= 1
          /\ \A a \in MonitoredSystems : MatchedDeparturesFrom(a) \in {0, 1}
          /\ Cardinality({a \in MonitoredSystems :
                            MatchedDeparturesFrom(a) # 0}) <= 1
          /\ Cardinality({a \in MonitoredSystems :
                            tracked_systems'[a].commanders
                              # tracked_systems[a].commanders}) <= 1
          /\ Cardinality(DepartedEvents(sink')) <= 1]_vars

\* a jump into Sol was handled while the route Nukamba -> Sol held two open
\* entries: one of them is resolved, the other is still open
C24_Witness ==
  /\ IsAcceptedJumpInto(data, "Sol", now)
  /\ PdHas(pending_departures, <<"Nukamba", "Sol">>)
  /\ Len(PdGet(pending_departures, <<"Nukamba", "Sol">>)) = 2
  /\ \E i, j \in 1..2 :
        /\ PdGet(pending_departures, <<"Nukamba", "Sol">>)[i].processed
        /\ ~PdGet(pending_departures, <<"Nukamba", "Sol">>)[j].processed
        /\ <<"Nukamba",
             PdGet(pending_departures, <<"Nukamba", "Sol">>)[j].timestamp>>
             \notin auto_processed_departures
  /\ messages_processed = 3

----------------------------------------------------------------------------
(* Properties of route plans *)

\* the entries pending for route a -> b, none when the route has no list
PendingFor(pd, a, b) == IF PdHas(pd, <<a, b>>) THEN PdGet(pd, <<a, b>>) ELSE <<>>

\* the list holds an entry with timestamp ts (processed or not), or an
\* unprocessed entry of uploader u
HoldsDuplicateOf(deps, ts, u) ==
  \/ \E i \in 1..Len(deps) : deps[i].timestamp = ts
  \/ \E i \in 1..Len(deps) : deps[i].uploader_id = u /\ ~deps[i].processed

\* C25 (route-plan departure dedup): a handled route-plan a -> b of uploader
\* u with a monitored leaves the entries of a -> b as they are and emits no
\* planned_departure event when that list holds an entry with the timestamp
\* of the message, processed or not, or an unprocessed entry of u; in every
\* other case the list of a -> b afterwards is the old one followed by one
\* new unprocessed entry with the timestamp and uploader of the message.
C25_PlanDedup ==
  [][\A a \in MonitoredSystems : \A b \in AllSystems :
       (/\ Handled
        /\ IsAcceptedRoutePlan(data', now)
        /\ data'.message.Route[1] = a
        /\ data'.message.Route[2] = b)
         => IF HoldsDuplicateOf(PendingFor(pending_departures, a, b),
                                data'.message.timestamp, Uploader(data'))
            THEN /\ PendingFor(pending_departures', a, b)
                      = PendingFor(pending_departures, a, b)
                 /\ PlannedDepartureEvents(sink', a, b) = {}
            ELSE PendingFor(pending_departures', a, b)
                   = Append(PendingFor(pending_departures, a, b),
                            [timestamp |-> data'.message.timestamp,
                             processed |-> FALSE,
                             uploader_id |-> Uploader(data')])]_vars

\* a route-plan Nukamba -> Sol was skipped because the one entry of the
\* route, of another uploader and already processed, carries its timestamp
C25_Witness ==
  /\ IsAcceptedRoutePlan(data, now)
  /\ data.message.Route = <<"Nukamba", "Sol">>
  /\ PendingFor(pending_departures, "Nukamba", "Sol")
       = <<[timestamp |-> data.message.timestamp, processed |-> TRUE,
            uploader_id |-> "u1_EDMC"]>>
  /\ Uploader(data) = "u2_EDMC"
  /\ raised = ""

\* entry dep is an unprocessed entry of uploader u
IsOpenOf(dep, u) == dep.uploader_id = u /\ ~dep.processed

\* the list deps without the unprocessed entries of uploader u
WithoutOpenOf(deps, u) == SelectSeq(deps, LAMBDA dep : ~IsOpenOf(dep, u))

\* C26 (route superseded): a handled route-plan a -> b of uploader u with a
\* monitored, that is not a duplicate, removes every unprocessed entry of u
\* from the routes out of a and leaves their other entries, in their order
\* (the route a -> b gains the new entry); the routes out of other systems
\* are unchanged; no counter changes and no departure event is emitted.
C26_RouteSuperseded ==
  [][\A a \in MonitoredSystems : \A b \in AllSystems :
       (/\ Handled
        /\ IsAcceptedRoutePlan(data', now)
        /\ data'.message.Route[1] = a
        /\ data'.message.Route[2] = b
        /\ ~HoldsDuplicateOf(PendingFor(pending_departures, a, b),
                             data'.message.timestamp, Uploader(data')))
         => /\ \A x \in AllSystems : \A y \in AllSystems :
                 PendingFor(pending_departures', x, y)
                   = IF x # a THEN PendingFor(pending_departures, x, y)
                     ELSE IF y # b
                     THEN WithoutOpenOf(PendingFor(pending_departures, x, y),
                                        Uploader(data'))
                     ELSE Append(PendingFor(pending_departures, x, y),
                                 [timestamp |-> data'.message.timestamp,
                                  processed |-> FALSE,
                                  uploader_id |-> Uploader(data')])
            /\ tracked_systems' = tracked_systems
            /\ \A x \in MonitoredSystems : DepartureEvents(sink', x) = {}]_vars

\* u2, whose planned arrival into Graffias is recorded (it had planned
\* Nukamba -> Graffias), planned Nukamba -> Sol: its entry of Nukamba ->
\* Graffias is gone with the emptied route, while u1's open entry of
\* Nukamba -> Sol is in place before the new one
C26_Witness ==
  /\ IsAcceptedRoutePlan(data, now)
  /\ Uploader(data) = "u2_EDMC"
  /\ data.message.Route = <<"Nukamba", "Sol">>
  /\ <<"u2_EDMC", "Graffias">> \in DOMAIN recent_planned_arrivals
  /\ recent_planned_arrivals[<<"u2_EDMC", "Graffias">>] = IsoZ(now)
  /\ ~PdHas(pending_departures, <<"Nukamba", "Graffias">>)
  /\ Len(PendingFor(pending_departures, "Nukamba", "Sol")) = 2
  /\ IsOpenOf(PendingFor(pending_departures, "Nukamba", "Sol")[1], "u1_EDMC")
  /\ PendingFor(pending_departures, "Nukamba", "Sol")[2]
       = [timestamp |-> data.message.timestamp, processed |-> FALSE,
          uploader_id |-> "u2_EDMC"]
  /\ raised = ""

\* the planned_arrival events for system n among the events es
PlannedArrivalEvents(es, n) ==
  {i \in 1..Len(es) : /\ es[i].type = "system_traffic"
                      /\ es[i].name = "planned_arrival"
                      /\ es[i].system = n}

\* C27 (planned-arrival dedup), as claimed: a handled route-plan of uploader
\* u whose next system n is monitored and differs from the current system
\* records and emits nothing when u's recorded planned arrival into n is
\* less than 30 seconds before the timestamp of the message; otherwise the
\* marker of (u, n) becomes that timestamp and exactly one planned_arrival
\* event for n is emitted; whether the departure of the same message was a
\* duplicate makes no difference.
C27_PlannedArrivalDedup ==
  [][\A n \in MonitoredSystems :
       (/\ Handled
        /\ IsAcceptedRoutePlan(data', now)
        /\ data'.message.Route[2] = n
        /\ data'.message.Route[1] # n)
         => LET key == <<Uploader(data'), n>>
                ts == data'.message.timestamp
            IN IF key \in DOMAIN recent_planned_arrivals
               THEN /\ (/\ ts.t - recent_planned_arrivals[key].t >= 0
                        /\ ts.t - recent_planned_arrivals[key].t < 30)
                         => /\ recent_planned_arrivals' = recent_planned_arrivals
                            /\ PlannedArrivalEvents(sink', n) = {}
                    /\ ts.t - recent_planned_arrivals[key].t >= 30
                         => /\ recent_planned_arrivals'[key] = ts
                            /\ Cardinality(PlannedArrivalEvents(sink', n)) = 1
               ELSE /\ key \in DOMAIN recent_planned_arrivals'
                    /\ recent_planned_arrivals'[key] = ts
                    /\ Cardinality(PlannedArrivalEvents(sink', n)) = 1]_vars

----------------------------------------------------------------------------
(* Properties of the arrival search and of the fallback *)

\* the positions of the entries of a -> b that are unprocessed and that no
\* timeout cleanup has recorded
OpenPositions(a, b) ==
  {i \in 1..Len(PendingFor(pending_departures, a, b)) :
     /\ ~PendingFor(pending_departures, a, b)[i].processed
     /\ <<a, PendingFor(pending_departures, a, b)[i].timestamp>>
          \notin auto_processed_departures}

\* position i holds the earliest timestamp among the open entries of a -> b
IsEarliestOpen(a, b, i) ==
  \A j \in OpenPositions(a, b) :
     PendingFor(pending_departures, a, b)[i].timestamp.t
       <= PendingFor(pending_departures, a, b)[j].timestamp.t

\* C28 (oldest first), as claimed: when several open entries are pending for
\* route a -> b, an accepted jump-confirmed into b resolves an open entry
\* with the earliest timestamp and leaves every other entry of the route as
\* it is, in whatever order the route-plans were handled.
C28_OldestFirst ==
  [][\A a \in MonitoredSystems : \A b \in AllSystems :
       (/\ Handled
        /\ IsAcceptedJumpInto(data', b, now)
        /\ Cardinality(OpenPositions(a, b)) >= 2
        /\ \A e \in Entries(pending_departures) :
              ~Overdue(pending_departures, e, now))
         => \E i \in OpenPositions(a, b) :
               /\ IsEarliestOpen(a, b, i)
               /\ PendingFor(pending_departures', a, b)
                    = [PendingFor(pending_departures, a, b)
                         EXCEPT ![i].processed = TRUE]]_vars

\* C29 (fallback departure), as claimed: an accepted jump-confirmed of
\* uploader u into x that finds no open entry of a route into x, while u has
\* a cached planned route (not expired) out of a monitored system a other
\* than x, adds one to the jumps_from of a, emits one departed event, for a,
\* and leaves u without a cached route; and a jump whose search resolved an
\* entry emits at most one departed event and keeps u's cached route.
C29_FallbackDeparture ==
  [][\A x \in AllSystems : \A u \in Uploaders :
       (/\ Handled
        /\ IsAcceptedJumpInto(data', x, now)
        /\ Uploader(data') = u
        /\ u \in DOMAIN recent_navroutes
        /\ now - recent_navroutes[u].timestamp.t <= 180
        /\ \A e \in Entries(pending_departures) :
              ~Overdue(pending_departures, e, now)
        /\ x \in MonitoredSystems
              => NoDuplicateArrival(u, x, data'.message.timestamp))
         => IF \A a \in MonitoredSystems : OpenPositions(a, x) = {}
            THEN LET a == recent_navroutes[u].from_system IN
                 (a \in MonitoredSystems /\ a # x)
                   => /\ tracked_systems'[a].jumps_from
                           = tracked_systems[a].jumps_from + 1
                      /\ Cardinality(DepartedEvents(sink')) = 1
                      /\ \A i \in DepartedEvents(sink') : sink'[i].system = a
                      /\ u \notin DOMAIN recent_navroutes'
            ELSE /\ Cardinality(DepartedEvents(sink')) <= 1
                 /\ u \in DOMAIN recent_navroutes'
                 /\ recent_navroutes'[u] = recent_navroutes[u]]_vars

----------------------------------------------------------------------------
(* Properties of the dispatcher *)

\* the schema of d names the family word, in whatever case it is written
IsOfFamily(d, word) == d.schemaRef.family = word

\* d has an empty body, a schema no handler is for, or a journal schema with
\* an event other than FSDJump
IsDropped(d) ==
  \/ d.message.empty
  \/ d.schemaRef.family \notin {"fsssignaldiscovered", "journal", "navroute"}
  \/ IsOfFamily(d, "journal") /\ d.message.event # "FSDJump"

\* the objects as the dispatcher hands them to a handler
Counted == [Self EXCEPT !.messages_processed = @ + 1]

\* C30 (dispatcher routing): a handled message that has an empty body, a
\* schema that is not recognized, or a journal schema with an event other
\* than FSDJump changes no state of the signal processor or of the route
\* tracker and emits no event and no notification; every other message
\* leaves exactly the state and the events of the one handler its schema
\* names, whether the schema is written with capitals or not: the signal
\* handler for a signal-discovery schema, the jump handler (with the event
\* callback) for a journal schema, the route handler (without callback) for
\* a nav-route schema.
C30_DispatcherRouting ==
  [][Handled =>
       IF IsDropped(data')
       THEN /\ UNCHANGED <<megaships, tracked_systems, missing_confirmations,
                           previous_ship_systems, signals_checked,
                           fleet_carriers_seen, recent_events,
                           recent_navroutes, pending_departures,
                           auto_processed_departures, recent_arrivals,
                           recent_planned_arrivals>>
            /\ sink' = <<>>
            /\ tasks' = <<>>
            /\ raised' = ""
       ELSE /\ IsOfFamily(data', "fsssignaldiscovered")
                 => Store(process_fss_signals(Counted, data'.message, now,
                                              "ok"))
            /\ IsOfFamily(data', "journal")
                 => Store(RunTasks(
                            process_fsd_jump(Counted, data'.message,
                               CmdrId(data'.header), now, "handle_event",
                               "ok"), 1, "ok"))
            /\ IsOfFamily(data', "navroute")
                 => Store(process_nav_route(Counted, data'.message,
                             CmdrId(data'.header), now, "None", "ok"))]_vars

\* a scan under a schema that is not recognized was dropped after the same
\* scan, under the signal-discovery schema written with capitals, had been
\* handled by the signal processor
C30_Witness ==
  /\ data.schemaRef = OtherSchema
  /\ data.message = ScanBody(now)
  /\ messages_processed = 2
  /\ sink = <<>>
  /\ signals_checked = 2
  /\ megaships["Cygnus"].status = "DETECTED"
  /\ Len(recent_events) = 1
  /\ tracked_systems["Nukamba"].fleet_carriers = 1
  /\ now = 300

----------------------------------------------------------------------------
(* Properties of the recent-events buffer *)

\* the last n elements of the sequence es (all of them when it is shorter)
LastOf(es, n) ==
  IF Len(es) <= n THEN es ELSE SubSeq(es, Len(es) - n + 1, Len(es))

\* C31 (recent-events buffer): the buffer never holds more than 300 events,
\* and after a message is handled it holds the last 300 of the events it
\* held before followed by the events the message emitted, in the order of
\* their emission; no other step changes it.
C31_RecentEventsBounded ==
  /\ [](Len(recent_events) <= 300)
  /\ [][IF Handled
        THEN recent_events' = LastOf(recent_events \o sink', 300)
        ELSE recent_events' = recent_events]_vars

\* the buffer is full after more than 300 events were emitted: its oldest
\* event is not the first one emitted, its newest is the last one emitted
C31_Witness ==
  /\ Len(recent_events) = 300
  /\ signals_checked > 300
  /\ sink # <<>>
  /\ recent_events[300] = sink[Len(sink)]
  /\ recent_events[1].timestamp # IsoZ(1)
  /\ messages_processed = 3

----------------------------------------------------------------------------
(* Properties of the arrival classification *)

\* uploader u holds a planned route into s that the pruning at clock value t
\* keeps (it is at most 180 seconds old)
HasFreshRouteInto(u, s, t) ==
  /\ u \in DOMAIN recent_navroutes
  /\ t - recent_navroutes[u].timestamp.t <= 180
  /\ recent_navroutes[u].to_system = s

\* C32 (arrival classification), as claimed: an accepted jump of uploader u
\* into monitored s that no recorded arrival makes a duplicate emits one
\* arrival event, which is arrived_planned exactly when, after the routes
\* older than 180 seconds are pruned, u holds a planned route into s, and
\* arrived otherwise.
C32_ArrivalClassification ==
  [][\A s \in MonitoredSystems : \A u \in Uploaders :
       (/\ Handled
        /\ IsAcceptedJumpInto(data', s, now)
        /\ Uploader(data') = u
        /\ NoDuplicateArrival(u, s, data'.message.timestamp))
         => /\ Cardinality(ArrivalEvents(sink', s)) = 1
            /\ \A i \in ArrivalEvents(sink', s) :
                  sink'[i].name = IF HasFreshRouteInto(u, s, now)
                                  THEN "arrived_planned"
                                  ELSE "arrived"]_vars

----------------------------------------------------------------------------
(* Properties of the snapshot *)

\* C40 (snapshot), as claimed: the snapshot always succeeds and reports for
\* every monitored system the integer commander count the tracker keeps,
\* which starts at 0; an accepted jump into monitored s that no recorded
\* arrival makes a duplicate makes the snapshot report one more for s, so
\* the first counted arrival makes it report 1.
C40_SnapshotCount ==
  /\ [](/\ get_status(tracked_systems).raised = ""
        /\ \A s \in MonitoredSystems :
              get_status(tracked_systems).tracked_systems[s].commanders >= 0)
  /\ [][\A s \in MonitoredSystems :
          (/\ Handled
           /\ IsAcceptedJumpInto(data', s, now)
           /\ NoDuplicateArrival(Uploader(data'), s, data'.message.timestamp))
            => /\ get_status(tracked_systems').raised = ""
               /\ get_status(tracked_systems').tracked_systems[s].commanders
                    = get_status(tracked_systems).tracked_systems[s].commanders
                        + 1]_vars

----------------------------------------------------------------------------
(* Properties of the traffic counters *)

\* C36 (counter relation), as claimed: for every monitored system the
\* commander count is an integer between jumps_to - jumps_from and jumps_to,
\* and neither jumps_to nor jumps_from ever decreases.
C36_CounterRelation ==
  /\ [](\A s \in MonitoredSystems :
          /\ tracked_systems[s].commanders.type = "int"
          /\ tracked_systems[s].jumps_to - tracked_systems[s].jumps_from
               <= tracked_systems[s].commanders.n
          /\ tracked_systems[s].commanders.n <= tracked_systems[s].jumps_to)
  /\ [][\A s \in MonitoredSystems :
          /\ tracked_systems'[s].jumps_to >= tracked_systems[s].jumps_to
          /\ tracked_systems'[s].jumps_from >= tracked_systems[s].jumps_from]_vars

----------------------------------------------------------------------------
(* Properties of the missing-confirmation counters *)

\* C33 (bounded counters): every missing-confirmation counter that exists is
\* between 1 and 5; and while ship n is shown SIGNAL MISSING in monitored s,
\* a scan of s without n leaves its counter and its status as they are and
\* emits no SIGNAL MISSING event for n.
C33_MissingCounterBounded ==
  /\ [](\A key \in DOMAIN missing_confirmations :
          missing_confirmations[key] >= 1 /\ missing_confirmations[key] <= 5)
  /\ [][\A n \in ShipNames : \A s \in MonitoredSystems :
          (/\ Handled
           /\ tracked_systems[s].ships[n] = SIGNAL_MISSING
           /\ IsScanOf(data', s)
           /\ Sightings(data', n) = {})
            => /\ Misses(missing_confirmations', n, s)
                    = Misses(missing_confirmations, n, s)
               /\ tracked_systems'[s].ships[n] = SIGNAL_MISSING
               /\ MissingEvents(sink', n) = {}]_vars

\* seven scans were handled: a sighting of Cygnus in Nukamba, five accepted
\* scans without it, and one more absent scan, which found the status
\* SIGNAL MISSING and the counter at 5 and emitted nothing
C33_Witness ==
  /\ messages_processed = 7
  /\ tracked_systems["Nukamba"].ships["Cygnus"] = SIGNAL_MISSING
  /\ Misses(missing_confirmations, "Cygnus", "Nukamba") = 5
  /\ IsAcceptedScanOf(data, "Nukamba", now)
  /\ Sightings(data, "Cygnus") = {}
  /\ sink = <<>>
  /\ Len(recent_events) = 2

----------------------------------------------------------------------------
(* Properties of the global record and the per-system statuses *)

\* C34 (global record agrees with the systems), as claimed: whenever the
\* global status of ship n is SIGNAL MISSING, the system of its global
\* record is a monitored system whose per-system status of n is SIGNAL
\* MISSING; and a scan of monitored s without n leaves the global record of
\* n as it is when that record names another system.
C34_GlobalRecordAgrees ==
  /\ [](\A n \in ShipNames :
          megaships[n].status = "SIGNAL MISSING"
            => /\ megaships[n].system \in MonitoredSystems
               /\ tracked_systems[megaships[n].system].ships[n]
                    = SIGNAL_MISSING)
  /\ [][\A n \in ShipNames : \A s \in MonitoredSystems :
          (/\ Handled
           /\ IsScanOf(data', s)
           /\ Sightings(data', n) = {}
           /\ megaships[n].system # s)
            => megaships'[n] = megaships[n]]_vars

\* C35 (one place at a time), as claimed: no ship is shown detected (its
\* per-system status a detection timestamp) in more than one monitored
\* system.
C35_DetectedInOneSystem ==
  \A n \in ShipNames :
     Cardinality({s \in MonitoredSystems :
                    ShownDetected(tracked_systems, n, s)}) <= 1

----------------------------------------------------------------------------
(* Properties of the pending departures of one uploader *)

\* the unprocessed pending entries of uploader u on the routes out of a
OpenEntriesFrom(pd, u, a) ==
  {e \in Entries(pd) : OriginOf(pd, e) = a /\ IsOpenOf(EntryOf(pd, e), u)}

\* C37 (one open departure per origin): over all the routes out of one
\* system, an uploader has at most one unprocessed pending departure.
C37_OneOpenDeparturePerOrigin ==
  \A u \in Uploaders : \A a \in AllSystems :
     Cardinality(OpenEntriesFrom(pending_departures, u, a)) <= 1

\* u2 planned Nukamba -> Graffias (its planned arrival is recorded) and then
\* Nukamba -> Sol: its one open entry out of Nukamba is the new one
C37_Witness ==
  /\ IsAcceptedRoutePlan(data, now)
  /\ Uploader(data) = "u2_EDMC"
  /\ data.message.Route = <<"Nukamba", "Sol">>
  /\ <<"u2_EDMC", "Graffias">> \in DOMAIN recent_planned_arrivals
  /\ now - recent_planned_arrivals[<<"u2_EDMC", "Graffias">>].t <= 150
  /\ \E e \in OpenEntriesFrom(pending_departures, "u2_EDMC", "Nukamba") :
        /\ pending_departures[e[1]].key = <<"Nukamba", "Sol">>
        /\ EntryOf(pending_departures, e).timestamp = data.message.timestamp
  /\ Cardinality(OpenEntriesFrom(pending_departures, "u2_EDMC", "Nukamba")) = 1
  /\ PendingFor(pending_departures, "Nukamba", "Sol")[1].uploader_id = "u2_EDMC"
  /\ raised = ""

----------------------------------------------------------------------------
(* Properties of skipped duplicate arrivals *)

\* the planned routes that the pruning at clock value t keeps
FreshRoutes(routes, t) ==
  {u \in DOMAIN routes : t - routes[u].timestamp.t <= 180}

\* C39 (duplicate arrivals change nothing): an accepted jump of uploader u
\* into monitored s that a recorded arrival makes a duplicate (an arrival
\* into s with the same timestamp, or u's own arrival into s less than 30
\* seconds before) resolves no pending departure by matching or fallback,
\* counts nothing, records no arrival and emits no arrival or departed
\* event; the planned routes afterwards are the ones the pruning keeps, u's
\* among them, and every pending entry that is not overdue stays as it is.
C39_DuplicateArrivalSkipped ==
  [][\A s \in MonitoredSystems : \A u \in Uploaders :
       (/\ Handled
        /\ IsAcceptedJumpInto(data', s, now)
        /\ Uploader(data') = u
        /\ ~NoDuplicateArrival(u, s, data'.message.timestamp))
         => /\ NewlyMatched = {}
            /\ \A a \in MonitoredSystems :
                  /\ MatchedDeparturesFrom(a) = 0
                  /\ tracked_systems'[a].jumps_to = tracked_systems[a].jumps_to
            /\ recent_arrivals' = recent_arrivals
            /\ recent_planned_arrivals' = recent_planned_arrivals
            /\ DepartedEvents(sink') = {}
            /\ \A x \in MonitoredSystems : ArrivalEvents(sink', x) = {}
            /\ DOMAIN recent_navroutes' = FreshRoutes(recent_navroutes, now)
            /\ \A v \in DOMAIN recent_navroutes' :
                  recent_navroutes'[v] = recent_navroutes[v]
            /\ \A e \in Entries(pending_departures) :
                  LET key == pending_departures[e[1]].key
                      dep == EntryOf(pending_departures, e)
                  IN (~dep.processed /\ ~Overdue(pending_departures, e, now))
                       => /\ PdHas(pending_departures', key)
                          /\ PdGet(pending_departures', key)[e[2]] = dep]_vars

\* u2, whose route Nukamba -> Graffias is cached and pending, jumped into
\* Graffias with the timestamp of u1's recorded arrival: the jump was
\* skipped, route and open entry are in place and no arrival of u2 is
\* recorded
C39_Witness ==
  /\ IsAcceptedJumpInto(data, "Graffias", now)
  /\ Uploader(data) = "u2_EDMC"
  /\ <<"u1_EDMC", "Graffias">> \in DOMAIN recent_arrivals
  /\ recent_arrivals[<<"u1_EDMC", "Graffias">>] = data.message.timestamp
  /\ <<"u2_EDMC", "Graffias">> \notin DOMAIN recent_arrivals
  /\ HasFreshRouteInto("u2_EDMC", "Graffias", now)
  /\ \E i \in 1..Len(PendingFor(pending_departures, "Nukamba", "Graffias")) :
        IsOpenOf(PendingFor(pending_departures, "Nukamba", "Graffias")[i],
                 "u2_EDMC")
  /\ sink = <<>>
  /\ raised = ""

----------------------------------------------------------------------------
(* Properties of the departure count *)

\* C38 (each planned departure counted at most once): a step adds to the
\* jumps_from of monitored a at most the number of pending entries of origin
\* a that it resolves (unprocessed before the step, processed or deleted as
\* processed after it), and only the handling of a jump-confirmed message
\* adds to it at all.  An entry is resolved once and never again (C14), so
\* the departures counted from a never exceed the entries appended with
\* origin a, whether they are resolved by the search, by the timeout or
\* stand behind a fallback.
C38_DepartureCountedOnce ==
  [][\A a \in MonitoredSystems :
       IF Handled /\ IsJump(data')
       THEN tracked_systems'[a].jumps_from - tracked_systems[a].jumps_from
              <= Cardinality(NewlyResolvedFrom(a))
       ELSE tracked_systems'[a].jumps_from = tracked_systems[a].jumps_from]_vars

\* u2, whose entry of Nukamba -> Sol was resolved by the search of an
\* earlier jump into Sol, jumped into Sol again while its route was still
\* cached: the search deleted the fully processed route, the fallback ran
\* for the origin Nukamba, and no second departure from Nukamba is counted
C38_Witness ==
  /\ IsAcceptedJump(data, now)
  /\ data.message.StarSystem = "Sol"
  /\ Uploader(data) = "u2_EDMC"
  /\ "u2_EDMC" \in DOMAIN recent_navroutes
  /\ recent_navroutes["u2_EDMC"].from_system = "Nukamba"
  /\ recent_navroutes["u2_EDMC"].to_system = "Sol"
  /\ now - recent_navroutes["u2_EDMC"].timestamp.t <= 180
  /\ ~PdHas(pending_departures, <<"Nukamba", "Sol">>)
  /\ auto_processed_departures = {}
  /\ raised = "TypeError"
  /\ messages_processed = 3
  /\ tracked_systems["Nukamba"].jumps_from = 0

====
